---- MODULE Spec2Model ----
(***************************************************************************)
(* Model of the Dev.to MCP server (src/server.py): the paged aggregation   *)
(* loops, the keyword scan, the identifier and title lookups with their    *)
(* fallbacks, and the response shaper.                                     *)
(*                                                                         *)
(* One tool call is one behaviour: a Call action takes the arguments and   *)
(* the remote service's content, the step actions are the handler's loop   *)
(* iterations (one remote call each), and the call ends with pc = "done"   *)
(* and its outcome in result.  Every remote call is appended to calls.     *)
(***************************************************************************)
EXTENDS Integers, Sequences, FiniteSets, TLC

VARIABLES
    op,            \* the tool being executed ("idle" before the call)
    pc,            \* position in the handler
    api_key,       \* TRUE iff get_api_key() yields a non-empty key
    page,          \* argument: starting page
    per_page,      \* argument: page size
    max_pages,     \* argument: page ceiling
    target,        \* argument: query, title, identifier, tag or username
    listing,       \* remote: the records of the listing a paged endpoint serves
    owned,         \* remote: the records of /articles/me/all
    direct,        \* remote: the answer of /articles/{id}
    tag_answer,    \* remote: the answer of /articles?tag=
    user_answer,   \* remote: the answer of /articles?username=
    current_page,  \* local: current_page (page in get_article)
    all_articles,  \* local: all_articles / all_matching_articles
    found,         \* local: articles / article of the lookups
    calls,         \* every request sent to the remote service, in order
    result,        \* the outcome the caller receives
    now            \* the reading of the server's clock, datetime.now()

vars == <<op, pc, api_key, page, per_page, max_pages, target, listing, owned,
          direct, tag_answer, user_answer, current_page, all_articles, found,
          calls, result, now>>

(***************************************************************************)
(* Bounds of the model.                                                    *)
(***************************************************************************)
MaxListing == 3      \* longest remote listing of an aggregated endpoint
MaxPerPage == 2      \* largest per_page argument
MaxStartPage == 2    \* largest page argument
MaxMaxPages == 3     \* largest max_pages argument
MaxFailures == 3     \* most requests the remote service fails in one call
RemotePerPage == 2   \* the remote service's page size when per_page is not sent
MaxPublicListing == 3 \* longest listing of /articles in a keyword scan
MaxOwned == 31       \* longest listing of /articles/me/all in an identifier lookup
OwnedDefaultPerPage == 30 \* the page size of /articles/me/all when per_page is not sent
MaxOwnedTitles == 2  \* longest listing of /articles/me/all in a title lookup
MaxTitleListing == 2 \* longest listing of /articles in a title lookup

(***************************************************************************)
(* Python values.  A dictionary key that is missing is Absent, a JSON null *)
(* is None; a string is a sequence of one-character strings.               *)
(***************************************************************************)
Absent == [k |-> "absent"]
None == [k |-> "none"]
PyStr(s) == [k |-> "str", s |-> s]
PyInt(n) == [k |-> "int", v |-> n]
PyBool(b) == [k |-> "bool", b |-> b]
PyList(l) == [k |-> "list", l |-> l]
PyUser(u) == [k |-> "dict", username |-> u]

\* dict.get(key, default)
Get(v, default) == IF v = Absent THEN default ELSE v

\* bool(v) / truthiness of a value
Truthy(v) ==
    CASE v.k = "absent" -> FALSE
      [] v.k = "none" -> FALSE
      [] v.k = "bool" -> v.b
      [] v.k = "int" -> v.v # 0
      [] v.k = "str" -> v.s # <<>>
      [] v.k = "list" -> v.l # <<>>
      [] v.k = "dict" -> TRUE

\* str.lower() on one character
LowerChar(c) ==
    CASE c = "A" -> "a"
      [] c = "B" -> "b"
      [] OTHER -> c

\* str.lower()
RECURSIVE Lower(_)
Lower(s) == IF s = <<>> THEN <<>> ELSE <<LowerChar(Head(s))>> \o Lower(Tail(s))

\* sub in s
Contains(sub, s) ==
    \E i \in 0..(Len(s) - Len(sub)) : SubSeq(s, i + 1, i + Len(sub)) = sub

IsSpace(c) == c \in {" ", "\t"}

\* str.strip()
RECURSIVE LStrip(_)
LStrip(s) == IF s # <<>> /\ IsSpace(Head(s)) THEN LStrip(Tail(s)) ELSE s

RECURSIVE RStrip(_)
RStrip(s) ==
    IF s # <<>> /\ IsSpace(s[Len(s)]) THEN RStrip(SubSeq(s, 1, Len(s) - 1)) ELSE s

Strip(s) == LStrip(RStrip(s))

\* str.split(","): the pieces between the commas, empty pieces included
RECURSIVE SplitComma(_, _)
SplitComma(s, piece) ==
    IF s = <<>> THEN <<piece>>
    ELSE IF Head(s) = "," THEN <<piece>> \o SplitComma(Tail(s), <<>>)
    ELSE SplitComma(Tail(s), Append(piece, Head(s)))

\* Variant: the pieces are kept as they were split.
RECURSIVE KeepNonEmptyStripped_untrimmed(_)
KeepNonEmptyStripped_untrimmed(pieces) ==
    IF pieces = <<>> THEN <<>>
    ELSE IF Strip(Head(pieces)) # <<>>
         THEN <<PyStr(Head(pieces))>> \o KeepNonEmptyStripped_untrimmed(Tail(pieces))
         ELSE KeepNonEmptyStripped_untrimmed(Tail(pieces))

RECURSIVE KeepNonEmptyStripped(_)
KeepNonEmptyStripped(pieces) ==
    IF pieces = <<>> THEN <<>>
    ELSE IF Strip(Head(pieces)) # <<>>
         THEN <<PyStr(Strip(Head(pieces)))>> \o KeepNonEmptyStripped(Tail(pieces))
         ELSE KeepNonEmptyStripped(Tail(pieces))

ensure_list(val) ==
    CASE val.k = "list" -> val.l
      [] val.k = "str" -> KeepNonEmptyStripped(SplitComma(val.s, <<>>))
      [] OTHER -> <<>>

(***************************************************************************)
(* Records of the remote service.                                          *)
(***************************************************************************)
Article(id, title, description, tag_list, tags, user, published, published_at, body_markdown, body_html, url) ==
    [id |-> id, title |-> title, description |-> description,
     tag_list |-> tag_list, tags |-> tags, user |-> user,
     published |-> published, published_at |-> published_at,
     body_markdown |-> body_markdown, body_html |-> body_html, url |-> url]

\* The literals of the shaper.
Untitled == PyStr(<<"Untitled">>)
Unknown == PyStr(<<"unknown">>)
EmptyStr == PyStr(<<>>)

\* Variant: a record without the flag counts as published.
get_published_absent_is_published(article) ==
    IF article.published = Absent THEN TRUE ELSE Truthy(Get(article.published, PyBool(FALSE)))

\* get_published, the helper inside simplify_articles
get_published(article) ==
    IF article.published = Absent THEN FALSE ELSE Truthy(Get(article.published, PyBool(FALSE)))

\* One element of the list simplify_articles builds.
simplify_article(article) ==
    [id |-> Get(article.id, None),
     title |-> Get(article.title, None),
     url |-> Get(article.url, None),
     published_at |-> Get(article.published_at, None),
     description |-> Get(article.description, None),
     tags |-> PyList(ensure_list(Get(article.tag_list, Get(article.tags, PyList(<<>>))))),
     author |-> IF Truthy(article.user) THEN Get(article.user.username, None) ELSE None,
     published |-> PyBool(get_published(article)),
     match_type |-> Absent]

RECURSIVE simplify_articles(_)
simplify_articles(articles) ==
    IF articles = <<>> THEN <<>>
    ELSE <<simplify_article(Head(articles))>> \o simplify_articles(Tail(articles))

\* A simplified dictionary read as a raw record: the keys it does not have
\* (tag_list, user, body_markdown, body_html) are missing.
AsRaw(s) ==
    Article(s.id, s.title, s.description, Absent, s.tags, Absent, s.published,
            s.published_at, Absent, Absent, s.url)

\* article.get("user", {}).get("username", "unknown") raises AttributeError
\* when the user key is present and null.
format_article_detail_raises(article) == article.user = None

\* Variant: the second operand is preferred.
PyOr_second_first(a, b) == IF Truthy(b) THEN b ELSE a

\* a or b
PyOr(a, b) == IF Truthy(a) THEN a ELSE b

format_article_detail(article) ==
    [id |-> Get(article.id, None),
     title |-> Get(article.title, Untitled),
     url |-> Get(article.url, EmptyStr),
     published_at |-> Get(article.published_at, None),
     description |-> Get(article.description, None),
     tags |-> PyList(ensure_list(Get(article.tag_list, Get(article.tags, PyList(<<>>))))),
     author |-> IF article.user = Absent THEN Unknown
                ELSE Get(article.user.username, Unknown),
     published |-> PyBool(Truthy(Get(article.published, PyBool(FALSE)))),
     body_markdown |-> Get(article.body_markdown, None),
     body_html |-> Get(article.body_html, None),
     content |-> PyOr(Get(article.body_markdown, None),
                      PyOr(Get(article.body_html, None), EmptyStr))]

(***************************************************************************)
(* Outcomes and exceptions.  A message is a sequence of its parts.         *)
(***************************************************************************)
DefaultStatusCode == 400
NotFoundStatus == 404
UnauthorizedStatus == 401

MCPError(message, status_code) ==
    [type |-> "MCPError", message |-> message, status_code |-> status_code]

\* httpx.HTTPStatusError raised by response.raise_for_status()
HTTPStatusError(status_code) ==
    [type |-> "HTTPStatusError", message |-> <<"HTTP status error", ToString(status_code)>>,
     status_code |-> status_code]

\* raise MCPError(f"<prefix>: {str(e)}"): the status code is the default one
Wrap(prefix, e) == MCPError(<<prefix>> \o e.message, DefaultStatusCode)

ApiKeyRequired ==
    MCPError(<<"API key is required for this operation">>, UnauthorizedStatus)

NoResult == [kind |-> "none"]
Returned(value) == [kind |-> "return", value |-> value]
Raised(e) == [kind |-> "raise", exc |-> e]

(***************************************************************************)
(* The remote service.                                                     *)
(***************************************************************************)
Min(a, b) == IF a < b THEN a ELSE b

\* The page a paged listing endpoint serves for ?page=p&per_page=n.
PageOf(records, p, n) == SubSeq(records, (p - 1) * n + 1, Min(p * n, Len(records)))

\* One request as the remote service sees it.
Request(path, p, n, tag, username, ok) ==
    [path |-> path, id |-> Absent, page |-> p, per_page |-> n, tag |-> tag,
     username |-> username, ok |-> ok]

\* The request GET /articles/{id}.
DirectRequest(id, ok) == [Request("/articles/{id}", Absent, Absent, Absent, Absent, ok)
                          EXCEPT !.id = id]

\* The number of requests of the call the remote service has failed.
Failures == Cardinality({i \in DOMAIN calls : ~calls[i].ok})

\* The ways the remote service may treat the next request: it answers (TRUE)
\* or, while it has failed fewer than MaxFailures requests, fails (FALSE).
MayAnswer == IF Failures < MaxFailures THEN BOOLEAN ELSE {TRUE}

\* Sequences over S of length at most n
RECURSIVE SeqsUpTo(_, _)
SeqsUpTo(S, n) ==
    IF n = 0 THEN {<<>>}
    ELSE LET shorter == SeqsUpTo(S, n - 1)
         IN shorter \cup {Append(q, x) : q \in {r \in shorter : Len(r) = n - 1}, x \in S}

(***************************************************************************)
(* The records the remote service is populated with.                       *)
(***************************************************************************)
s_Ab == <<"A", "b">>
s_ab == <<"a", "b">>
s_b == <<"b">>
s_u == <<"u">>

\* A published record titled "Ab".
artAb ==
    Article(PyInt(1), PyStr(s_Ab), PyStr(<<>>), PyList(<<>>), Absent, PyUser(PyStr(s_u)),
            PyBool(TRUE), PyStr(<<"2020-01-01T00:00:00Z">>), PyStr(<<"m">>),
            PyStr(<<"h">>), PyStr(<<"/1">>))
\* A draft titled "ab".
artab ==
    Article(PyInt(2), PyStr(s_ab), PyStr(<<>>), PyList(<<>>), Absent, PyUser(PyStr(s_u)),
            PyBool(FALSE), None, PyStr(<<"m">>), Absent, PyStr(<<"/2">>))
\* A published record titled "b" and tagged "ab".
artTag ==
    Article(PyInt(3), PyStr(s_b), PyStr(<<>>), PyList(<<PyStr(s_ab)>>), Absent,
            PyUser(PyStr(s_u)), PyBool(TRUE), PyStr(<<"2020-01-01T00:00:00Z">>),
            Absent, Absent, PyStr(<<"/3">>))
\* A record with a null title, no publication flag, its tags as one string and
\* a null user.
artNull ==
    Article(PyInt(4), None, None, Absent, PyStr(<<"a", ",", " ", "b">>), None,
            Absent, None, None, None, PyStr(<<"/4">>))

AggCatalogue == {artAb, artab, artNull}

(***************************************************************************)
(* The aggregating tools: browse_latest_articles, browse_popular_articles, *)
(* browse_articles_by_tag, search_articles_by_user, list_my_articles and   *)
(* list_my_draft_articles run the same loop over different endpoints.      *)
(***************************************************************************)
AggOps ==
    {"browse_latest_articles", "browse_popular_articles", "browse_articles_by_tag",
     "search_articles_by_user", "list_my_articles", "list_my_draft_articles"}

\* The tools that check the API key before anything else.
NeedsKey(o) == o \in {"list_my_articles", "list_my_draft_articles"}

AggPath(o) ==
    CASE o = "browse_latest_articles" -> "/articles/latest"
      [] o = "list_my_articles" -> "/articles/me"
      [] o = "list_my_draft_articles" -> "/articles/me/unpublished"
      [] OTHER -> "/articles"

\* The request of one loop iteration.
AggRequest(o, p, n, t, ok) ==
    Request(AggPath(o), PyInt(p), PyInt(n),
            IF o = "browse_articles_by_tag" THEN t ELSE Absent,
            IF o = "search_articles_by_user" THEN t ELSE Absent, ok)

\* The message the outer handler puts in front of whatever was raised.
FailedPrefix(o) ==
    CASE o = "browse_latest_articles" -> "Failed to get latest articles"
      [] o = "browse_popular_articles" -> "Failed to get popular articles"
      [] o = "browse_articles_by_tag" -> "Failed to get articles with tag"
      [] o = "search_articles_by_user" -> "Failed to get articles for user"
      [] o = "list_my_articles" -> "Failed to list my articles"
      [] o = "list_my_draft_articles" -> "Failed to list my draft articles"
      [] o = "search_articles" -> "Failed to search for"
      [] o = "get_article_by_title" -> "Failed to get article"
      [] o = "get_article_by_id" -> "Failed to get article"
      [] OTHER -> "Failed"

\* Variant: the ceiling is one page too far.
max_page_to_search_off_by_one == page + max_pages

\* max_page_to_search = page + max_pages - 1
max_page_to_search == page + max_pages - 1

Init ==
    /\ op = "idle"
    /\ pc = "idle"
    /\ api_key = FALSE
    /\ page = 1
    /\ per_page = 1
    /\ max_pages = 0
    /\ target = None
    /\ listing = <<>>
    /\ owned = <<>>
    /\ direct = NoResult
    /\ tag_answer = None
    /\ user_answer = None
    /\ current_page = 1
    /\ all_articles = <<>>
    /\ found = None
    /\ calls = <<>>
    /\ result = NoResult
    /\ now = None

\* The entry of an aggregating tool, up to the first loop test.
AggCall ==
    /\ pc = "idle"
    /\ \E o \in AggOps, key \in BOOLEAN, p \in 1..MaxStartPage, n \in 1..MaxPerPage,
          m \in (-1)..MaxMaxPages, recs \in SeqsUpTo(AggCatalogue, MaxListing) :
          /\ op' = o
          /\ api_key' = key
          /\ page' = p
          /\ per_page' = n
          /\ max_pages' = m
          /\ target' = IF o \in {"browse_articles_by_tag", "search_articles_by_user"}
                        THEN PyStr(s_ab) ELSE None
          /\ listing' = recs
          /\ current_page' = p
          /\ IF NeedsKey(o) /\ ~key
             THEN /\ pc' = "done"
                  /\ result' = Raised(Wrap(FailedPrefix(o), ApiKeyRequired))
             ELSE /\ pc' = "aggregate"
                  /\ result' = NoResult
    /\ all_articles' = <<>>
    /\ UNCHANGED <<now, owned, direct, tag_answer, user_answer, found, calls>>

\* Variant: an empty page does not end the loop.
AggFetch_no_break ==
    /\ pc = "aggregate"
    /\ current_page <= max_page_to_search
    /\ \E ok \in MayAnswer :
          LET articles == PageOf(listing, current_page, per_page) IN
          /\ calls' = Append(calls, AggRequest(op, current_page, per_page, target, ok))
          /\ all_articles' = IF ok THEN all_articles \o articles ELSE all_articles
          /\ current_page' = current_page + 1
          /\ UNCHANGED pc
    /\ UNCHANGED <<now, op, api_key, page, per_page, max_pages, target, listing, owned,
                   direct, tag_answer, user_answer, found, result>>

\* Variant: a failed page fetch ends the call with the error.
AggFetch_newest_page_first ==
    /\ pc = "aggregate"
    /\ current_page <= max_page_to_search
    /\ \E ok \in MayAnswer :
          LET articles == PageOf(listing, current_page, per_page) IN
          /\ calls' = Append(calls, AggRequest(op, current_page, per_page, target, ok))
          /\ IF ~ok THEN current_page' = current_page + 1 /\ UNCHANGED <<all_articles, pc>>
             ELSE IF articles = <<>> THEN pc' = "aggregated" /\ UNCHANGED <<all_articles, current_page>>
             ELSE all_articles' = articles \o all_articles /\ current_page' = current_page + 1 /\ UNCHANGED pc
    /\ UNCHANGED <<now, op, api_key, page, per_page, max_pages, target, listing, owned, direct, tag_answer, user_answer, found, result>>

AggFetch_skip_after_failure ==
    /\ pc = "aggregate"
    /\ current_page <= max_page_to_search
    /\ \E ok \in MayAnswer :
          LET articles == PageOf(listing, current_page, per_page) IN
          /\ calls' = Append(calls, AggRequest(op, current_page, per_page, target, ok))
          /\ IF ~ok THEN current_page' = current_page + 2 /\ UNCHANGED <<all_articles, pc>>
             ELSE IF articles = <<>> THEN pc' = "aggregated" /\ UNCHANGED <<all_articles, current_page>>
             ELSE all_articles' = all_articles \o articles /\ current_page' = current_page + 1 /\ UNCHANGED pc
    /\ UNCHANGED <<now, op, api_key, page, per_page, max_pages, target, listing, owned, direct, tag_answer, user_answer, found, result>>

AggFetch_retry_failed_page ==
    /\ pc = "aggregate"
    /\ current_page <= max_page_to_search
    /\ \E ok \in MayAnswer :
          LET articles == PageOf(listing, current_page, per_page) IN
          /\ calls' = Append(calls, AggRequest(op, current_page, per_page, target, ok))
          /\ IF ~ok THEN UNCHANGED <<current_page, all_articles, pc>>
             ELSE IF articles = <<>> THEN pc' = "aggregated" /\ UNCHANGED <<all_articles, current_page>>
             ELSE all_articles' = all_articles \o articles /\ current_page' = current_page + 1 /\ UNCHANGED pc
    /\ UNCHANGED <<now, op, api_key, page, per_page, max_pages, target, listing, owned, direct, tag_answer, user_answer, found, result>>

AggFetch_abort_on_failure ==
    /\ pc = "aggregate"
    /\ current_page <= max_page_to_search
    /\ \E ok \in MayAnswer :
          LET articles == PageOf(listing, current_page, per_page) IN
          /\ calls' = Append(calls, AggRequest(op, current_page, per_page, target, ok))
          /\ IF ~ok
             THEN /\ pc' = "done"
                  /\ result' = Raised(Wrap(FailedPrefix(op), HTTPStatusError(500)))
                  /\ UNCHANGED <<all_articles, current_page>>
             ELSE IF articles = <<>>
             THEN /\ pc' = "aggregated"
                  /\ UNCHANGED <<all_articles, current_page, result>>
             ELSE /\ all_articles' = all_articles \o articles
                  /\ current_page' = current_page + 1
                  /\ UNCHANGED <<pc, result>>
    /\ UNCHANGED <<now, op, api_key, page, per_page, max_pages, target, listing, owned,
                   direct, tag_answer, user_answer, found>>

\* One iteration of the while loop: the page is requested; a failure is logged
\* and the loop moves on, an empty page ends the loop, any other page is
\* appended.
AggFetch ==
    /\ pc = "aggregate"
    /\ current_page <= max_page_to_search
    /\ \E ok \in MayAnswer :
          LET articles == PageOf(listing, current_page, per_page) IN
          /\ calls' = Append(calls, AggRequest(op, current_page, per_page, target, ok))
          /\ IF ~ok
             THEN /\ current_page' = current_page + 1
                  /\ UNCHANGED <<all_articles, pc>>
             ELSE IF articles = <<>>
             THEN /\ pc' = "aggregated"
                  /\ UNCHANGED <<all_articles, current_page>>
             ELSE /\ all_articles' = all_articles \o articles
                  /\ current_page' = current_page + 1
                  /\ UNCHANGED pc
    /\ UNCHANGED <<now, op, api_key, page, per_page, max_pages, target, listing, owned,
                   direct, tag_answer, user_answer, found, result>>

\* After the loop: the collected records are simplified and returned.
AggReturn ==
    /\ \/ pc = "aggregated"
       \/ pc = "aggregate" /\ current_page > max_page_to_search
    /\ pc' = "done"
    /\ result' = Returned(simplify_articles(all_articles))
    /\ UNCHANGED <<now, op, api_key, page, per_page, max_pages, target, listing, owned,
                   direct, tag_answer, user_answer, current_page, all_articles,
                   found, calls>>

NextAgg == AggCall \/ AggFetch \/ AggReturn

SpecAgg == Init /\ [][NextAgg]_vars

(***************************************************************************)
(* search_articles: the keyword scan.                                      *)
(***************************************************************************)
SearchDefaultPage == 1
SearchDefaultMaxPages == 30

s_x == <<"x">>
s_a_b == <<"a", " ", "b">>
s_atb == <<"a", "\t", "b">>

SearchCatalogue == {artAb, artab, artTag, artNull}
SearchQueries == {s_Ab, s_x, s_a_b, s_atb}

\* The answer of a filter call: a failure or a list of records.
Failure == [ok |-> FALSE]
Answer(records) == [ok |-> TRUE, records |-> records]
FilterAnswers == {Failure, Answer(<<>>), Answer(<<artTag>>)}

\* query.lower() in article.get(key, "").lower(): "raise" when the value is
\* present and not a string (None has no lower()).
FieldOutcome(q, v) ==
    LET t == Get(v, EmptyStr) IN
    IF t.k # "str" THEN "raise"
    ELSE IF Contains(Lower(q), Lower(t.s)) THEN "match" ELSE "nomatch"

\* isinstance(tag_list, list) and any(query.lower() in tag.lower() ...)
TagOutcome(q, v) ==
    IF v.k = "list" /\ \E i \in DOMAIN v.l : Contains(Lower(q), Lower(v.l[i].s))
    THEN "match" ELSE "nomatch"

\* isinstance(user, dict) and query.lower() in user.get("username", "").lower()
UserOutcome(q, v) ==
    IF v.k = "dict" THEN FieldOutcome(q, v.username) ELSE "nomatch"

\* a or b on outcomes: b is evaluated only when a is not a match.
OrElse(a, b) == IF a = "nomatch" THEN b ELSE a

\* The condition of the page filter for one record, its operands evaluated
\* from left to right.
MatchOutcome(q, article) ==
    OrElse(FieldOutcome(q, article.title),
    OrElse(FieldOutcome(q, article.description),
    OrElse(TagOutcome(q, article.tag_list),
    OrElse(UserOutcome(q, article.user),
           FieldOutcome(q, article.body_markdown)))))

\* The list comprehension raises when its condition raises on any record.
PageRaises(q, articles) ==
    \E i \in DOMAIN articles : MatchOutcome(q, articles[i]) = "raise"

RECURSIVE page_matches(_, _)
page_matches(q, articles) ==
    IF articles = <<>> THEN <<>>
    ELSE (IF MatchOutcome(q, Head(articles)) = "match" THEN <<Head(articles)>> ELSE <<>>)
         \o page_matches(q, Tail(articles))

\* " " not in query
NoSpaceIn(q) == \A i \in DOMAIN q : q[i] # " "

\* simplify_articles followed by article["match_type"] = "search_result"
RECURSIVE search_results(_)
search_results(articles) ==
    IF articles = <<>> THEN <<>>
    ELSE <<[simplify_article(Head(articles)) EXCEPT
                !.match_type = PyStr(<<"search_result">>)]>>
         \o search_results(Tail(articles))

\* The entry of search_articles(query, page, max_pages), up to the loop.
SearchBegin(q, p, m) ==
    /\ target' = PyStr(q)
    /\ page' = p
    /\ max_pages' = m
    /\ current_page' = p
    /\ all_articles' = <<>>
    /\ pc' = "search"

SearchCall ==
    /\ pc = "idle"
    /\ op' = "search_articles"
    /\ \E q \in SearchQueries, p \in 1..MaxStartPage, m \in (-1)..MaxMaxPages :
          SearchBegin(q, p, m)
    /\ listing' \in SeqsUpTo(SearchCatalogue, MaxPublicListing)
    /\ UNCHANGED <<now, api_key, per_page, owned, direct, tag_answer, user_answer, found,
                   calls, result>>

\* Variant: the loop goes on after a page with matches.
SearchFetch_no_early_exit ==
    /\ pc = "search"
    /\ current_page <= max_page_to_search
    /\ \E ok \in MayAnswer :
          LET articles == PageOf(listing, current_page, RemotePerPage)
              matches == all_articles \o page_matches(target.s, articles)
          IN
          /\ calls' = Append(calls, Request("/articles", PyInt(current_page), Absent,
                                            Absent, Absent, ok))
          /\ IF ~ok
             THEN /\ current_page' = current_page + 1
                  /\ UNCHANGED <<all_articles, pc>>
             ELSE IF articles = <<>>
             THEN /\ pc' = "search_end"
                  /\ UNCHANGED <<all_articles, current_page>>
             ELSE IF PageRaises(target.s, articles)
             THEN /\ current_page' = current_page + 1
                  /\ UNCHANGED <<all_articles, pc>>
             ELSE /\ all_articles' = matches
                  /\ current_page' = current_page + 1
                  /\ UNCHANGED pc
    /\ UNCHANGED <<now, op, api_key, page, per_page, max_pages, target, listing, owned,
                   direct, tag_answer, user_answer, found, result>>

\* One iteration of the paging loop.
SearchFetch ==
    /\ pc = "search"
    /\ current_page <= max_page_to_search
    /\ \E ok \in MayAnswer :
          LET articles == PageOf(listing, current_page, RemotePerPage)
              matches == all_articles \o page_matches(target.s, articles)
          IN
          /\ calls' = Append(calls, Request("/articles", PyInt(current_page), Absent,
                                            Absent, Absent, ok))
          /\ IF ~ok
             THEN /\ current_page' = current_page + 1
                  /\ UNCHANGED <<all_articles, pc>>
             ELSE IF articles = <<>>
             THEN /\ pc' = "search_end"
                  /\ UNCHANGED <<all_articles, current_page>>
             ELSE IF PageRaises(target.s, articles)
             THEN /\ current_page' = current_page + 1
                  /\ UNCHANGED <<all_articles, pc>>
             ELSE IF matches # <<>>
             THEN /\ all_articles' = matches
                  /\ pc' = "search_end"
                  /\ UNCHANGED current_page
             ELSE /\ current_page' = current_page + 1
                  /\ UNCHANGED <<all_articles, pc>>
    /\ UNCHANGED <<now, op, api_key, page, per_page, max_pages, target, listing, owned,
                   direct, tag_answer, user_answer, found, result>>

\* The paging loop is over.
SearchLoopEnded ==
    \/ pc = "search_end"
    \/ pc = "search" /\ current_page > max_page_to_search

\* Variant: a failure of the filter-by-tag call ends the scan with an error.
SearchTag_failure_surfaces ==
    /\ SearchLoopEnded
    /\ all_articles = <<>>
    /\ \E answer \in FilterAnswers :
          /\ tag_answer' = answer
          /\ calls' = Append(calls, Request("/articles", Absent, Absent,
                                            PyStr(Lower(target.s)), Absent, answer.ok))
          /\ IF answer.ok
             THEN /\ all_articles' = all_articles \o answer.records
                  /\ pc' = "search_tagged"
                  /\ UNCHANGED result
             ELSE /\ pc' = "done"
                  /\ result' = Raised(MCPError(<<"Failed to search for", "network error">>, DefaultStatusCode))
                  /\ UNCHANGED all_articles
    /\ UNCHANGED <<now, op, api_key, page, per_page, max_pages, target, listing, owned,
                   direct, user_answer, current_page, found>>

\* if not all_matching_articles: the filter-by-tag call, its failure ignored.
SearchTag ==
    /\ SearchLoopEnded
    /\ all_articles = <<>>
    /\ \E answer \in FilterAnswers :
          /\ tag_answer' = answer
          /\ calls' = Append(calls, Request("/articles", Absent, Absent,
                                            PyStr(Lower(target.s)), Absent, answer.ok))
          /\ all_articles' = IF answer.ok THEN all_articles \o answer.records
                              ELSE all_articles
    /\ pc' = "search_tagged"
    /\ UNCHANGED <<now, op, api_key, page, per_page, max_pages, target, listing, owned,
                   direct, user_answer, current_page, found, result>>

\* Variant: the filter-by-username call is made whatever the tag call gave.
SearchUser_whatever_the_tag_call_gave ==
    /\ pc = "search_tagged"
    /\ NoSpaceIn(target.s)
    /\ \E answer \in FilterAnswers :
          /\ user_answer' = answer
          /\ calls' = Append(calls, Request("/articles", Absent, Absent, Absent,
                                            PyStr(Lower(target.s)), answer.ok))
          /\ all_articles' = IF answer.ok THEN all_articles \o answer.records
                              ELSE all_articles
    /\ pc' = "search_usered"
    /\ UNCHANGED <<now, op, api_key, page, per_page, max_pages, target, listing, owned,
                   direct, tag_answer, current_page, found, result>>

\* if not all_matching_articles and " " not in query: the filter-by-username
\* call, its failure ignored.
SearchUser ==
    /\ pc = "search_tagged"
    /\ all_articles = <<>>
    /\ NoSpaceIn(target.s)
    /\ \E answer \in FilterAnswers :
          /\ user_answer' = answer
          /\ calls' = Append(calls, Request("/articles", Absent, Absent, Absent,
                                            PyStr(Lower(target.s)), answer.ok))
          /\ all_articles' = IF answer.ok THEN all_articles \o answer.records
                              ELSE all_articles
    /\ pc' = "search_usered"
    /\ UNCHANGED <<now, op, api_key, page, per_page, max_pages, target, listing, owned,
                   direct, tag_answer, current_page, found, result>>

\* The end of search_articles: the matches are simplified and marked; the
\* list goes to the caller, or to get_article_by_title when it made the call.
\* The tools that set the publication flag of a record given by its
\* identifier, and those that first resolve a title with get_article_by_title.
PublishOps == {"publish_article", "unpublish_article"}
ByTitleOps == {"publish_article_by_title", "unpublish_article_by_title"}

\* get_article_by_title and the tools that call it.
TitleOps == {"get_article_by_title"} \cup ByTitleOps

\* Where get_article_by_title hands its outcome.
AfterTitle(o) == IF o \in ByTitleOps THEN "resolved" ELSE "done"

TitlePrefix == FailedPrefix("get_article_by_title")

SearchReturn ==
    /\ \/ SearchLoopEnded /\ all_articles # <<>>
       \/ pc = "search_tagged" /\ ~(all_articles = <<>> /\ NoSpaceIn(target.s))
       \/ pc = "search_usered"
    /\ IF op \in TitleOps
       THEN /\ found' = PyList(search_results(all_articles))
            /\ pc' = "title_searched"
            /\ UNCHANGED result
       ELSE /\ result' = Returned(search_results(all_articles))
            /\ pc' = "done"
            /\ UNCHANGED found
    /\ UNCHANGED <<now, op, api_key, page, per_page, max_pages, target, listing, owned,
                   direct, tag_answer, user_answer, current_page, all_articles, calls>>

NextSearch == SearchCall \/ SearchFetch \/ SearchTag \/ SearchUser \/ SearchReturn

SpecSearch == Init /\ [][NextSearch]_vars

(***************************************************************************)
(* get_article and get_article_by_id: the identifier lookups.              *)
(***************************************************************************)
GetArticlePerPage == 30
GetArticleMaxPages == 10

DigitChar(d) ==
    CASE d = 0 -> "0" [] d = 1 -> "1" [] d = 2 -> "2" [] d = 3 -> "3" [] d = 4 -> "4"
      [] d = 5 -> "5" [] d = 6 -> "6" [] d = 7 -> "7" [] d = 8 -> "8" [] d = 9 -> "9"

\* The decimal digits of a natural number.
RECURSIVE Digits(_)
Digits(n) == IF n < 10 THEN <<DigitChar(n)>> ELSE Append(Digits(n \div 10), DigitChar(n % 10))

\* str(v)
str(v) ==
    CASE v.k = "str" -> v
      [] v.k = "int" -> PyStr(Digits(v.v))
      [] OTHER -> PyStr(<<"None">>)

\* An error dictionary {"error": message}, with no status_code key.
ErrorDict(message) == [kind |-> "error", message |-> message, status_code |-> Absent]

\* The answers of GET /articles/{id}.
DirectOk(article) == [kind |-> "ok", article |-> article]
DirectHttp(status) == [kind |-> "http", status |-> status]
DirectNetwork == [kind |-> "network"]
DirectAnswers ==
    {DirectOk(artAb), DirectOk(artNull), DirectHttp(NotFoundStatus), DirectHttp(500),
     DirectNetwork}

\* The records of /articles/me/all in an identifier lookup: record i has the
\* identifier i (a number), and is published when i is in P.
OwnedRecord(i, pub) ==
    Article(PyInt(i), PyStr(s_ab), PyStr(<<>>), PyList(<<>>), Absent, PyUser(PyStr(s_u)),
            PyBool(pub), None, PyStr(<<"m">>), Absent, PyStr(<<"/a">>))

RECURSIVE OwnedWorld(_, _)
OwnedWorld(n, P) ==
    IF n = 0 THEN <<>> ELSE Append(OwnedWorld(n - 1, P), OwnedRecord(n, n \in P))

\* The listings of up to MaxOwned records with at most one published record.
OwnedWorlds ==
    {OwnedWorld(n, {}) : n \in 0..MaxOwned}
    \cup {OwnedWorld(w[1], {w[2]}) :
            w \in {v \in (1..MaxOwned) \X (1..MaxOwned) : v[2] <= v[1]}}

\* The identifier arguments: a number or its decimal string, for the first
\* owned record, the last record of the first page, the last record there can
\* be, and a record there is not.
TargetNumbers == {1, OwnedDefaultPerPage, MaxOwned, MaxOwned + 1}
Identifiers == {PyInt(n) : n \in TargetNumbers} \cup {str(PyInt(n)) : n \in TargetNumbers}

RECURSIVE ScanPage_past_published(_, _)
\* Variant: a published record is passed over and the scan goes on.
ScanPage_past_published(articles, id) ==
    IF articles = <<>> THEN [kind |-> "none"]
    ELSE IF Truthy(Head(articles).published) THEN ScanPage_past_published(Tail(articles), id)
    ELSE IF str(Get(Head(articles).id, None)) = str(id)
         THEN [kind |-> "match", article |-> Head(articles)]
    ELSE ScanPage_past_published(Tail(articles), id)

\* The for loop of get_article over one page: "stop" at a published record,
\* the record whose identifier equals the target as a string, or "none".
RECURSIVE ScanPage(_, _)
ScanPage(articles, id) ==
    IF articles = <<>> THEN [kind |-> "none"]
    ELSE IF Truthy(Head(articles).published) THEN [kind |-> "stop"]
    ELSE IF str(Get(Head(articles).id, None)) = str(id)
         THEN [kind |-> "match", article |-> Head(articles)]
    ELSE ScanPage(Tail(articles), id)

\* The for loop of get_article_by_id: the first record whose identifier equals
\* the target (==, no conversion), or "none".
RECURSIVE FirstWithId(_, _)
FirstWithId(articles, id) ==
    IF articles = <<>> THEN [kind |-> "none"]
    ELSE IF Get(Head(articles).id, None) = id
         THEN [kind |-> "match", article |-> Head(articles)]
    ELSE FirstWithId(Tail(articles), id)

AttributeError == [type |-> "AttributeError", message |-> <<"'NoneType' object has no attribute">>]
NetworkError == [type |-> "ConnectError", message |-> <<"connection failed">>]

IdLookupCall ==
    /\ pc = "idle"
    /\ op' \in {"get_article", "get_article_by_id"}
    /\ api_key' \in BOOLEAN
    /\ target' \in Identifiers
    /\ owned' \in OwnedWorlds
    /\ pc' = "direct"
    /\ UNCHANGED <<now, page, per_page, max_pages, listing, direct, tag_answer, user_answer,
                   current_page, all_articles, found, calls, result>>

\* Variant: every HTTP error of the public endpoint leads to the fallback.
GetArticleDirect_fallback_on_any_status ==
    /\ op = "get_article"
    /\ pc = "direct"
    /\ \E answer \in DirectAnswers :
          /\ direct' = answer
          /\ calls' = Append(calls, DirectRequest(target, answer.kind = "ok"))
          /\ CASE answer.kind = "ok" ->
                    /\ pc' = "done"
                    /\ result' = IF format_article_detail_raises(answer.article)
                                  THEN ErrorDict(AttributeError.message)
                                  ELSE Returned(format_article_detail(answer.article))
                    /\ UNCHANGED current_page
               [] answer.kind = "http" ->
                    /\ pc' = "owned_scan"
                    /\ current_page' = 1
                    /\ UNCHANGED result
               [] answer.kind = "network" ->
                    /\ pc' = "done"
                    /\ result' = ErrorDict(NetworkError.message)
                    /\ UNCHANGED current_page
    /\ UNCHANGED <<now, op, api_key, page, per_page, max_pages, target, listing, owned,
                   tag_answer, user_answer, all_articles, found>>

\* get_article: the public endpoint; only a 404 leads to the fallback.
GetArticleDirect ==
    /\ op = "get_article"
    /\ pc = "direct"
    /\ \E answer \in DirectAnswers :
          /\ direct' = answer
          /\ calls' = Append(calls, DirectRequest(target, answer.kind = "ok"))
          /\ CASE answer.kind = "ok" ->
                    /\ pc' = "done"
                    /\ result' = IF format_article_detail_raises(answer.article)
                                  THEN ErrorDict(AttributeError.message)
                                  ELSE Returned(format_article_detail(answer.article))
                    /\ UNCHANGED current_page
               [] answer.kind = "http" /\ answer.status # NotFoundStatus ->
                    /\ pc' = "done"
                    /\ result' = ErrorDict(<<"HTTP error">> \o HTTPStatusError(answer.status).message)
                    /\ UNCHANGED current_page
               [] answer.kind = "http" /\ answer.status = NotFoundStatus ->
                    /\ pc' = "owned_scan"
                    /\ current_page' = 1
                    /\ UNCHANGED result
               [] answer.kind = "network" ->
                    /\ pc' = "done"
                    /\ result' = ErrorDict(NetworkError.message)
                    /\ UNCHANGED current_page
    /\ UNCHANGED <<now, op, api_key, page, per_page, max_pages, target, listing, owned,
                   tag_answer, user_answer, all_articles, found>>

NotFoundWithId == <<"Article not found with ID">>

\* get_article: one iteration of the fallback loop over /articles/me/all, with
\* the loop test that follows it.  The remote service refuses the request
\* without an API key; any failure ends the call with an error dictionary.
GetArticleScan ==
    /\ op = "get_article"
    /\ pc = "owned_scan"
    /\ current_page <= GetArticleMaxPages
    /\ \E ok \in (IF api_key THEN MayAnswer ELSE {FALSE}) :
          LET articles == PageOf(owned, current_page, GetArticlePerPage)
              scan == ScanPage(articles, target)
          IN
          /\ calls' = Append(calls, Request("/articles/me/all", PyInt(current_page),
                                            PyInt(GetArticlePerPage), Absent, Absent, ok))
          /\ IF ~ok
             THEN /\ pc' = "done"
                  /\ result' = ErrorDict(HTTPStatusError(IF api_key THEN 500
                                                          ELSE UnauthorizedStatus).message)
                  /\ UNCHANGED current_page
             ELSE IF scan.kind = "stop"
             THEN /\ pc' = "done"
                  /\ result' = ErrorDict(NotFoundWithId)
                  /\ UNCHANGED current_page
             ELSE IF scan.kind = "match"
             THEN /\ pc' = "done"
                  /\ result' = IF format_article_detail_raises(scan.article)
                                THEN ErrorDict(AttributeError.message)
                                ELSE Returned(format_article_detail(scan.article))
                  /\ UNCHANGED current_page
             ELSE IF articles = <<>> \/ current_page + 1 > GetArticleMaxPages
             THEN /\ pc' = "done"
                  /\ result' = ErrorDict(NotFoundWithId)
                  /\ UNCHANGED current_page
             ELSE /\ current_page' = current_page + 1
                  /\ UNCHANGED <<pc, result>>
    /\ UNCHANGED <<now, op, api_key, page, per_page, max_pages, target, listing, owned,
                   direct, tag_answer, user_answer, all_articles, found>>

\* get_article_by_id: the public endpoint; a 404 leads to the fallback, any
\* other failure is raised again and wrapped by the outer handler.
ByIdDirect ==
    /\ op = "get_article_by_id"
    /\ pc = "direct"
    /\ \E answer \in DirectAnswers :
          /\ direct' = answer
          /\ calls' = Append(calls, DirectRequest(target, answer.kind = "ok"))
          /\ CASE answer.kind = "ok" ->
                    /\ pc' = "done"
                    /\ result' = IF format_article_detail_raises(answer.article)
                                  THEN Raised(Wrap(FailedPrefix(op), AttributeError))
                                  ELSE Returned(format_article_detail(answer.article))
               [] answer.kind = "http" /\ answer.status = NotFoundStatus ->
                    /\ pc' = "find_all"
                    /\ UNCHANGED result
               [] answer.kind = "http" /\ answer.status # NotFoundStatus ->
                    /\ pc' = "done"
                    /\ result' = Raised(Wrap(FailedPrefix(op), HTTPStatusError(answer.status)))
               [] answer.kind = "network" ->
                    /\ pc' = "done"
                    /\ result' = Raised(Wrap(FailedPrefix(op), NetworkError))
    /\ UNCHANGED <<now, op, api_key, page, per_page, max_pages, target, listing, owned,
                   tag_answer, user_answer, current_page, all_articles, found>>

FindAllPrefix == "Failed to find all my articles"

\* What find_all_my_articles raises without an API key.
FindAllWithoutKey == Wrap(FindAllPrefix, ApiKeyRequired)

\* get_article_by_id: the fallback.  find_all_my_articles sends one request
\* for /articles/me/all without parameters; every exception, the not-found
\* error included, passes through the outer handler.
ByIdFallback ==
    /\ op = "get_article_by_id"
    /\ pc = "find_all"
    /\ pc' = "done"
    /\ IF ~api_key
       THEN /\ result' = Raised(Wrap(FailedPrefix(op), FindAllWithoutKey))
            /\ UNCHANGED calls
       ELSE \E ok \in MayAnswer :
            LET articles == PageOf(owned, 1, OwnedDefaultPerPage)
                hit == FirstWithId(articles, target)
            IN
            /\ calls' = Append(calls, Request("/articles/me/all", Absent, Absent,
                                              Absent, Absent, ok))
            /\ result' =
                  IF ~ok
                  THEN Raised(Wrap(FailedPrefix(op), Wrap(FindAllPrefix, HTTPStatusError(500))))
                  ELSE IF hit.kind = "match"
                  THEN (IF format_article_detail_raises(hit.article)
                        THEN Raised(Wrap(FailedPrefix(op), AttributeError))
                        ELSE Returned(format_article_detail(hit.article)))
                  ELSE Raised(Wrap(FailedPrefix(op), MCPError(NotFoundWithId, NotFoundStatus)))
    /\ UNCHANGED <<now, op, api_key, page, per_page, max_pages, target, listing, owned,
                   direct, tag_answer, user_answer, current_page, all_articles, found>>

NextLookup == IdLookupCall \/ GetArticleDirect \/ GetArticleScan \/ ByIdDirect \/ ByIdFallback

SpecLookup == Init /\ [][NextLookup]_vars

(***************************************************************************)
(* get_article_by_title: the title lookup.                                 *)
(***************************************************************************)
Titles == {s_Ab, s_ab, s_x}
TitleCatalogue == {artAb, artab, artNull}

NotFoundWithTitle == <<"Article not found with title">>

\* next((article for article in articles if article["title"] == title), None)
RECURSIVE FirstWithTitle(_, _)
FirstWithTitle(articles, title) ==
    IF articles = <<>> THEN [kind |-> "none"]
    ELSE IF Head(articles).title = title
         THEN [kind |-> "match", article |-> Head(articles)]
    ELSE FirstWithTitle(Tail(articles), title)

\* Variant: the titles are compared as they are.
RECURSIVE FirstWithTitleIgnoringCase_exact(_, _)
FirstWithTitleIgnoringCase_exact(articles, title) ==
    IF articles = <<>> THEN [kind |-> "none"]
    ELSE LET t == Get(Head(articles).title, EmptyStr) IN
         IF t.k # "str" THEN [kind |-> "raise"]
         ELSE IF t.s = title.s
              THEN [kind |-> "match", article |-> Head(articles)]
         ELSE FirstWithTitleIgnoringCase_exact(Tail(articles), title)

\* next((article for article in articles
\*       if article.get("title", "").lower() == title.lower()), None):
\* "raise" at a record whose title is present and not a string.
RECURSIVE FirstWithTitleIgnoringCase(_, _)
FirstWithTitleIgnoringCase(articles, title) ==
    IF articles = <<>> THEN [kind |-> "none"]
    ELSE LET t == Get(Head(articles).title, EmptyStr) IN
         IF t.k # "str" THEN [kind |-> "raise"]
         ELSE IF Lower(t.s) = Lower(title.s)
              THEN [kind |-> "match", article |-> Head(articles)]
         ELSE FirstWithTitleIgnoringCase(Tail(articles), title)

\* The entry of get_article_by_title: search_articles(title) with its defaults.
TitleCall ==
    /\ pc = "idle"
    /\ op' = "get_article_by_title"
    /\ api_key' \in BOOLEAN
    /\ \E t \in Titles : SearchBegin(t, SearchDefaultPage, SearchDefaultMaxPages)
    /\ listing' \in SeqsUpTo(TitleCatalogue, MaxTitleListing)
    /\ owned' \in SeqsUpTo(TitleCatalogue, MaxOwnedTitles)
    /\ UNCHANGED <<now, per_page, direct, tag_answer, user_answer, found, calls, result>>

\* Variant: the caller's own records are consulted whatever the search gave.
TitleMatch_owned_first ==
    /\ op = "get_article_by_title"
    /\ pc = "title_searched"
    /\ pc' = "title_owned"
    /\ UNCHANGED <<now, op, api_key, page, per_page, max_pages, target, listing, owned,
                   direct, tag_answer, user_answer, current_page, all_articles, found,
                   calls, result>>

\* After the search: a result with exactly the title is returned in its detail
\* form; without one the lookup goes on to the caller's own records.
TitleMatch ==
    /\ op \in TitleOps
    /\ pc = "title_searched"
    /\ LET hit == FirstWithTitle(found.l, target) IN
       IF hit.kind = "match"
       THEN /\ pc' = AfterTitle(op)
            /\ result' = Returned(format_article_detail(AsRaw(hit.article)))
       ELSE /\ pc' = "title_owned"
            /\ UNCHANGED result
    /\ UNCHANGED <<now, op, api_key, page, per_page, max_pages, target, listing, owned,
                   direct, tag_answer, user_answer, current_page, all_articles, found,
                   calls>>

\* find_all_my_articles and the case-insensitive match.  Every exception, the
\* not-found error included, passes through the outer handler.
TitleOwned ==
    /\ op \in TitleOps
    /\ pc = "title_owned"
    /\ pc' = AfterTitle(op)
    /\ IF ~api_key
       THEN /\ result' = Raised(Wrap(TitlePrefix, FindAllWithoutKey))
            /\ UNCHANGED <<calls, found>>
       ELSE \E ok \in MayAnswer :
            LET articles == PageOf(owned, 1, OwnedDefaultPerPage)
                hit == FirstWithTitleIgnoringCase(articles, target)
            IN
            /\ calls' = Append(calls, Request("/articles/me/all", Absent, Absent,
                                              Absent, Absent, ok))
            /\ found' = IF ok THEN PyList(articles) ELSE found
            /\ result' =
                  IF ~ok
                  THEN Raised(Wrap(TitlePrefix, Wrap(FindAllPrefix, HTTPStatusError(500))))
                  ELSE IF hit.kind = "raise"
                  THEN Raised(Wrap(TitlePrefix, AttributeError))
                  ELSE IF hit.kind = "match"
                  THEN (IF format_article_detail_raises(hit.article)
                        THEN Raised(Wrap(TitlePrefix, AttributeError))
                        ELSE Returned(format_article_detail(hit.article)))
                  ELSE Raised(Wrap(TitlePrefix,
                                   MCPError(NotFoundWithTitle, NotFoundStatus)))
    /\ UNCHANGED <<now, op, api_key, page, per_page, max_pages, target, listing, owned,
                   direct, tag_answer, user_answer, current_page, all_articles>>

NextTitle ==
    \/ TitleCall
    \/ SearchFetch
    \/ SearchTag
    \/ SearchUser
    \/ SearchReturn
    \/ TitleMatch
    \/ TitleOwned

SpecTitle == Init /\ [][NextTitle]_vars

(***************************************************************************)
(* The response shaper applied to one record: simplify_articles and        *)
(* format_article_detail as pure functions.  target is the raw record,     *)
(* found the tag collection its tag field was written from.                *)
(***************************************************************************)
MaxTags == 3

\* The tags a collection is made of, trimmed and non-empty.
TagAtoms == {<<"a">>, <<"b", "c">>}

\* The separators a comma-separated tag string is written with.
Separators == {<<",">>, <<",", " ">>, <<" ", ",", "\t">>}

TagCollections == SeqsUpTo(TagAtoms, MaxTags)

\* sep.join(tags)
RECURSIVE JoinWith(_, _)
JoinWith(tags, sep) ==
    IF tags = <<>> THEN <<>>
    ELSE IF Len(tags) = 1 THEN Head(tags)
    ELSE Head(tags) \o sep \o JoinWith(Tail(tags), sep)

\* The collection as a JSON array of strings.
RECURSIVE AsTagList(_)
AsTagList(tags) ==
    IF tags = <<>> THEN <<>> ELSE <<PyStr(Head(tags))>> \o AsTagList(Tail(tags))

\* The forms in which the remote service writes the collection.
TagForms(tags) ==
    {PyList(AsTagList(tags))} \cup {PyStr(JoinWith(tags, sep)) : sep \in Separators}

\* The values of the other fields the shaper reads.
PublishedValues == {Absent, None, PyBool(TRUE), PyBool(FALSE), PyInt(0)}
UserValues == {Absent, None, PyUser(PyStr(s_u))}
MarkdownValues == {Absent, None, EmptyStr, PyStr(<<"m">>)}
HtmlValues == {Absent, None, EmptyStr, PyStr(<<"h">>)}
OtherTags == PyList(<<PyStr(<<"z">>)>>)

ShapeOps == {"simplify_articles", "format_article_detail"}

\* A record reaches the shaper; its tag collection stands under tag_list,
\* under tags, or under tag_list with something else under tags.
ShapeCall ==
    /\ pc = "idle"
    /\ op' \in ShapeOps
    /\ \E tags \in TagCollections, pub \in PublishedValues, user \in UserValues,
          md \in MarkdownValues, html \in HtmlValues, key \in {"tag_list", "tags", "both"} :
          \E form \in TagForms(tags) \cup (IF tags = <<>> THEN {None} ELSE {}) :
             /\ found' = PyList(AsTagList(tags))
             /\ target' = Article(PyInt(1), PyStr(s_Ab), PyStr(<<>>),
                                  IF key = "tags" THEN Absent ELSE form,
                                  CASE key = "tags" -> form
                                    [] key = "both" -> OtherTags
                                    [] OTHER -> Absent,
                                  user, pub, None, md, html, PyStr(<<"/1">>))
    /\ pc' = "shape"
    /\ UNCHANGED <<now, api_key, page, per_page, max_pages, listing, owned, direct,
                   tag_answer, user_answer, current_page, all_articles, calls, result>>

\* simplify_articles([record])
ShapeSimplify ==
    /\ op = "simplify_articles"
    /\ pc = "shape"
    /\ result' = Returned(simplify_articles(<<target>>))
    /\ pc' = "done"
    /\ UNCHANGED <<now, op, api_key, page, per_page, max_pages, target, listing, owned,
                   direct, tag_answer, user_answer, current_page, all_articles, found,
                   calls>>

\* format_article_detail(record)
ShapeDetail ==
    /\ op = "format_article_detail"
    /\ pc = "shape"
    /\ result' = IF format_article_detail_raises(target)
                 THEN Raised(AttributeError)
                 ELSE Returned(format_article_detail(target))
    /\ pc' = "done"
    /\ UNCHANGED <<now, op, api_key, page, per_page, max_pages, target, listing, owned,
                   direct, tag_answer, user_answer, current_page, all_articles, found,
                   calls>>

NextShape == ShapeCall \/ ShapeSimplify \/ ShapeDetail

SpecShape == Init /\ [][NextShape]_vars

(***************************************************************************)
(* list_my_scheduled_articles: one page of the owned listing, filtered by  *)
(* the publication flag and by published_at against the server's clock.    *)
(***************************************************************************)
MaxSecond == 2
MaxUtcOffset == 1
MaxScheduledListing == 2
FirstHour == 10
HalfSecond == 500000

\* An instant of the day the model plays in: hour, second, microsecond.
Instant(h, s, us) == [h |-> h, s |-> s, us |-> us]

DatePrefix == <<"2", "0", "3", "0", "-", "0", "1", "-", "0", "1", "T">>
TwoDigits(n) == <<DigitChar(n \div 10), DigitChar(n % 10)>>
SixDigits(n) ==
    <<DigitChar((n \div 100000) % 10), DigitChar((n \div 10000) % 10),
      DigitChar((n \div 1000) % 10), DigitChar((n \div 100) % 10),
      DigitChar((n \div 10) % 10), DigitChar(n % 10)>>

\* datetime.isoformat() of a naive datetime: the fraction is written only
\* when the microsecond is not zero, and no zone is written.
isoformat(t) ==
    DatePrefix \o TwoDigits(t.h) \o <<":", "0", "0", ":">> \o TwoDigits(t.s)
    \o (IF t.us = 0 THEN <<>> ELSE <<".">> \o SixDigits(t.us))

\* The remote service writes published_at in UTC, to the second, with Z.
RemoteTimestamp(t) ==
    DatePrefix \o TwoDigits(t.h) \o <<":", "0", "0", ":">> \o TwoDigits(t.s) \o <<"Z">>

\* ord(c) for the characters of a timestamp
CharCode(c) ==
    CASE c = "-" -> 45 [] c = "." -> 46
      [] c = "0" -> 48 [] c = "1" -> 49 [] c = "2" -> 50 [] c = "3" -> 51
      [] c = "4" -> 52 [] c = "5" -> 53 [] c = "6" -> 54 [] c = "7" -> 55
      [] c = "8" -> 56 [] c = "9" -> 57 [] c = ":" -> 58
      [] c = "T" -> 84 [] c = "Z" -> 90

\* a > b on strings
RECURSIVE StrGreater(_, _)
StrGreater(a, b) ==
    IF a = <<>> THEN FALSE
    ELSE IF b = <<>> THEN TRUE
    ELSE IF Head(a) = Head(b) THEN StrGreater(Tail(a), Tail(b))
    ELSE CharCode(Head(a)) > CharCode(Head(b))

\* datetime.now(): the wall clock of the server's zone, utc_offset hours
\* ahead of UTC.
ClockReadings ==
    {[h |-> FirstHour + o, s |-> s, us |-> us, utc_offset |-> o] :
        o \in 0..MaxUtcOffset, s \in 0..MaxSecond, us \in {0, HalfSecond}}

\* The owned records: a draft, a published record without a timestamp, and
\* records published at an instant of the hours the clock can show.
draft ==
    Article(PyInt(1), PyStr(s_ab), PyStr(<<>>), PyList(<<>>), Absent, PyUser(PyStr(s_u)),
            PyBool(FALSE), None, PyStr(<<"m">>), Absent, PyStr(<<"/1">>))
publishedUndated ==
    Article(PyInt(2), PyStr(s_ab), PyStr(<<>>), PyList(<<>>), Absent, PyUser(PyStr(s_u)),
            PyBool(TRUE), None, PyStr(<<"m">>), Absent, PyStr(<<"/2">>))
publishedAt(h, s) ==
    Article(PyInt(100 * h + s), PyStr(s_ab), PyStr(<<>>), PyList(<<>>), Absent,
            PyUser(PyStr(s_u)), PyBool(TRUE), PyStr(RemoteTimestamp(Instant(h, s, 0))),
            PyStr(<<"m">>), Absent, PyStr(<<"/3">>))

unflagged ==
    Article(PyInt(3), PyStr(s_ab), PyStr(<<>>), PyList(<<>>), Absent, PyUser(PyStr(s_u)),
            Absent, None, PyStr(<<"m">>), Absent, PyStr(<<"/3">>))

ScheduledCatalogue ==
    {draft, publishedUndated, unflagged}
    \cup {publishedAt(h, s) : h \in FirstHour..(FirstHour + MaxUtcOffset), s \in 0..MaxSecond}

\* article["published"] and article["published_at"] > datetime.now().isoformat()
\* for one record: the subscript raises KeyError on a missing key and the
\* comparison raises TypeError on a null timestamp.
ScheduledOutcome(article, clock) ==
    IF article.published = Absent THEN "raise"
    ELSE IF ~Truthy(article.published) THEN "no"
    ELSE IF article.published_at.k # "str" THEN "raise"
    ELSE IF StrGreater(article.published_at.s, isoformat(clock)) THEN "yes" ELSE "no"

FilterRaises(articles, clock) ==
    \E i \in DOMAIN articles : ScheduledOutcome(articles[i], clock) = "raise"

RECURSIVE scheduled_articles(_, _)
scheduled_articles(articles, clock) ==
    IF articles = <<>> THEN <<>>
    ELSE (IF ScheduledOutcome(Head(articles), clock) = "yes" THEN <<Head(articles)>> ELSE <<>>)
         \o scheduled_articles(Tail(articles), clock)

ScheduledPrefix == <<"Failed to list my scheduled articles">>
TypeError == [type |-> "TypeError", message |-> <<"'>' not supported">>]
KeyError == [type |-> "KeyError", message |-> <<"'published'">>]

\* The exception of the first record the filter fails on.
RECURSIVE FilterError(_, _)
FilterError(articles, clock) ==
    IF ScheduledOutcome(Head(articles), clock) = "raise"
    THEN (IF Head(articles).published = Absent THEN KeyError ELSE TypeError)
    ELSE FilterError(Tail(articles), clock)

\* The tool and the REST endpoint that calls it.
SchedOps == {"list_my_scheduled_articles", "rest_list_my_scheduled_articles"}

\* The entry of list_my_scheduled_articles, up to the API key test.
SchedCall ==
    /\ pc = "idle"
    /\ op' = "list_my_scheduled_articles"
    /\ api_key' \in BOOLEAN
    /\ page' \in 1..MaxStartPage
    /\ per_page' \in 1..MaxPerPage
    /\ owned' \in SeqsUpTo(ScheduledCatalogue, MaxScheduledListing)
    /\ IF api_key'
       THEN /\ pc' = "scheduled"
            /\ UNCHANGED result
       ELSE /\ pc' = "done"
            /\ result' = Raised(MCPError(ScheduledPrefix \o ApiKeyRequired.message,
                                         DefaultStatusCode))
    /\ UNCHANGED <<now, max_pages, target, listing, direct, tag_answer, user_answer,
                   current_page, all_articles, found, calls>>

\* The one request of the tool, the filter and the return; every exception
\* is raised again as MCPError("Failed to list my scheduled articles: ...").
SchedFetch ==
    /\ op \in SchedOps
    /\ pc = "scheduled"
    /\ \E ok \in MayAnswer, clock \in ClockReadings :
          LET articles == PageOf(owned, page, per_page) IN
          /\ calls' = Append(calls, Request("/articles/me/all", PyInt(page),
                                            PyInt(per_page), Absent, Absent, ok))
          /\ now' = IF ok THEN clock ELSE now
          /\ result' =
                IF ~ok THEN Raised(MCPError(ScheduledPrefix \o NetworkError.message,
                                            DefaultStatusCode))
                ELSE IF FilterRaises(articles, clock)
                THEN Raised(MCPError(ScheduledPrefix \o FilterError(articles, clock).message,
                                     DefaultStatusCode))
                ELSE Returned(simplify_articles(scheduled_articles(articles, clock)))
    /\ pc' = IF op = "rest_list_my_scheduled_articles" /\ result'.kind = "return"
             THEN "rest_annotate" ELSE "done"
    /\ UNCHANGED <<op, api_key, page, per_page, max_pages, target, listing, owned,
                   direct, tag_answer, user_answer, current_page, all_articles, found>>

NextSched == SchedCall \/ SchedFetch

SpecSched == Init /\ [][NextSched]_vars

(***************************************************************************)
(* create_article and update_article.  target holds the arguments, direct  *)
(* the answer of the remote service to the POST or PUT.                    *)
(***************************************************************************)
\* [a-z0-9_]
TagCharacters ==
    {"a", "b", "c", "d", "e", "f", "g", "h", "i", "j", "k", "l", "m", "n", "o", "p", "q",
     "r", "s", "t", "u", "v", "w", "x", "y", "z",
     "0", "1", "2", "3", "4", "5", "6", "7", "8", "9", "_"}

IsTagCharacter(c) == c \in TagCharacters

\* re.sub(r'[^a-z0-9_]', '', tag.lower())
sanitize_tag(tag) == SelectSeq(Lower(tag), IsTagCharacter)

\* [sanitize_tag(tag.strip()) for tag in pieces if sanitize_tag(tag.strip())]
RECURSIVE SanitizedTags(_)
SanitizedTags(pieces) ==
    IF pieces = <<>> THEN <<>>
    ELSE (IF sanitize_tag(Strip(Head(pieces))) # <<>>
          THEN <<PyStr(sanitize_tag(Strip(Head(pieces))))>> ELSE <<>>)
         \o SanitizedTags(Tail(pieces))

\* The control characters safe_json_payload removes (below ' ', not \n \r \t).
IsKept(c) == c # "\f"

\* clean(val) of safe_json_payload on a string
clean(s) == SelectSeq(s, IsKept)

RECURSIVE CleanTags(_)
CleanTags(tags) ==
    IF tags = <<>> THEN <<>> ELSE <<PyStr(clean(Head(tags).s))>> \o CleanTags(Tail(tags))

\* The arguments of the two tools; None is an optional argument left out.
WriteArgs(id, title, content, tags, published) ==
    [k |-> "args", id |-> id, title |-> title, content |-> content, tags |-> tags,
     published |-> published]

WriteTitles == {PyStr(s_Ab), PyStr(<<"a", "\f", "b">>)}
WriteTagArgs == {PyStr(<<>>), PyStr(<<"A", ",", " ", "b", "_", "1">>), PyStr(<<"!", ",">>)}
WriteContents == {PyStr(<<"m">>)}
WriteIds == {PyInt(1), PyStr(<<"1">>)}

\* article_data["article"] of create_article after safe_json_payload
CreatePayload(a) ==
    LET tag_list == IF Truthy(a.tags) THEN SanitizedTags(SplitComma(a.tags.s, <<>>)) ELSE <<>>
    IN [title |-> PyStr(clean(a.title.s)),
        body_markdown |-> PyStr(clean(a.content.s)),
        published |-> PyBool(Truthy(a.published)),
        tags |-> IF tag_list # <<>> THEN PyList(CleanTags(tag_list)) ELSE Absent]

\* Variant: the publication flag is written like in create_article.
UpdatePayload_flag_always(a) ==
    LET tag_list == IF a.tags = None THEN <<>> ELSE SanitizedTags(SplitComma(a.tags.s, <<>>))
    IN [title |-> IF a.title = None THEN Absent ELSE PyStr(clean(a.title.s)),
        body_markdown |-> IF a.content = None THEN Absent ELSE PyStr(clean(a.content.s)),
        published |-> PyBool(Truthy(a.published)),
        tags |-> IF tag_list # <<>> THEN PyList(CleanTags(tag_list)) ELSE Absent]

\* article_data["article"] of update_article after safe_json_payload
UpdatePayload(a) ==
    LET tag_list == IF a.tags = None THEN <<>> ELSE SanitizedTags(SplitComma(a.tags.s, <<>>))
    IN [title |-> IF a.title = None THEN Absent ELSE PyStr(clean(a.title.s)),
        body_markdown |-> IF a.content = None THEN Absent ELSE PyStr(clean(a.content.s)),
        published |-> IF a.published = None THEN Absent ELSE PyBool(Truthy(a.published)),
        tags |-> IF tag_list # <<>> THEN PyList(CleanTags(tag_list)) ELSE Absent]

\* One POST or PUT as the remote service sees it.
WriteRequest(method, path, id, payload, ok) ==
    [path |-> path, id |-> id, page |-> Absent, per_page |-> Absent, tag |-> Absent,
     username |-> Absent, ok |-> ok, method |-> method, payload |-> payload]

\* An error dictionary {"error": message, "status_code": status}.
ErrorDictWithStatus(message, status) ==
    [kind |-> "error", message |-> message, status_code |-> PyInt(status)]

WriteOps == {"create_article", "update_article"}

\* The entry of the two tools, up to the API key test.
WriteCall ==
    /\ pc = "idle"
    /\ api_key' \in BOOLEAN
    /\ \/ /\ op' = "create_article"
          /\ \E title \in WriteTitles, content \in WriteContents, tags \in WriteTagArgs,
                published \in {PyBool(TRUE), PyBool(FALSE)} :
                target' = WriteArgs(None, title, content, tags, published)
       \/ /\ op' = "update_article"
          /\ \E id \in WriteIds, title \in WriteTitles \cup {None},
                content \in WriteContents \cup {None}, tags \in WriteTagArgs \cup {None},
                published \in {PyBool(TRUE), PyBool(FALSE), None} :
                target' = WriteArgs(id, title, content, tags, published)
    /\ IF api_key'
       THEN /\ pc' = "write"
            /\ UNCHANGED result
       ELSE /\ pc' = "done"
            /\ result' = ErrorDictWithStatus(ApiKeyRequired.message, UnauthorizedStatus)
    /\ UNCHANGED <<now, page, per_page, max_pages, listing, owned, direct, tag_answer,
                   user_answer, current_page, all_articles, found, calls>>

\* The POST /articles or PUT /articles/{id} and what the tool makes of the
\* answer: the detail view of the response, the remote status in an error
\* dictionary, or the text of any other exception.
WriteSend ==
    /\ op \in WriteOps \cup PublishOps \cup ByTitleOps
    /\ pc = "write"
    /\ \E answer \in DirectAnswers :
          /\ direct' = answer
          /\ calls' = Append(calls,
                IF op = "create_article"
                THEN WriteRequest("POST", "/articles", Absent, CreatePayload(target),
                                  answer.kind = "ok")
                ELSE WriteRequest("PUT", "/articles/{id}", target.id, UpdatePayload(target),
                                  answer.kind = "ok"))
          /\ result' =
                CASE answer.kind = "ok" ->
                        IF format_article_detail_raises(answer.article)
                        THEN ErrorDict(AttributeError.message)
                        ELSE Returned(format_article_detail(answer.article))
                  [] answer.kind = "http" ->
                        ErrorDictWithStatus(<<"Dev.to API error", ToString(answer.status)>>,
                                            answer.status)
                  [] answer.kind = "network" -> ErrorDict(NetworkError.message)
    /\ pc' = "done"
    /\ UNCHANGED <<now, op, api_key, page, per_page, max_pages, target, listing, owned,
                   tag_answer, user_answer, current_page, all_articles, found>>

NextWrite == WriteCall \/ WriteSend

SpecWrite == Init /\ [][NextWrite]_vars

(***************************************************************************)
(* publish_article, unpublish_article and their by-title forms.  Each calls *)
(* update_article with the publication flag as the only field.              *)
(***************************************************************************)
\* published=True or published=False in the call of update_article
PublishFlag(o) == PyBool(o \in {"publish_article", "publish_article_by_title"})

\* update_article(article_id, published=..., api_key=api_key), up to its API
\* key test.
PublishArgs(o, id) == WriteArgs(id, None, None, None, PublishFlag(o))

\* The entry of publish_article and unpublish_article.
PublishCall ==
    /\ pc = "idle"
    /\ op' \in PublishOps
    /\ api_key' \in BOOLEAN
    /\ \E id \in WriteIds : target' = PublishArgs(op', id)
    /\ IF api_key'
       THEN /\ pc' = "write"
            /\ UNCHANGED result
       ELSE /\ pc' = "done"
            /\ result' = ErrorDictWithStatus(ApiKeyRequired.message, UnauthorizedStatus)
    /\ UNCHANGED <<now, page, per_page, max_pages, listing, owned, direct, tag_answer,
                   user_answer, current_page, all_articles, found, calls>>

\* The entry of the by-title forms: get_article_by_title(title), which starts
\* with search_articles(title) and its defaults.
ByTitleCall ==
    /\ pc = "idle"
    /\ op' \in ByTitleOps
    /\ api_key' \in BOOLEAN
    /\ \E t \in Titles : SearchBegin(t, SearchDefaultPage, SearchDefaultMaxPages)
    /\ listing' \in SeqsUpTo(TitleCatalogue, MaxTitleListing)
    /\ owned' \in {<<>>} \cup {<<r>> : r \in TitleCatalogue}
    /\ UNCHANGED <<now, per_page, direct, tag_answer, user_answer, found, calls, result>>

\* Variant: the update is sent whatever the title lookup gave.
ByTitleResolved_put_regardless ==
    /\ op \in ByTitleOps
    /\ pc = "resolved"
    /\ found' = IF result.kind = "raise" THEN None ELSE [k |-> "dict", d |-> result.value]
    /\ target' = PublishArgs(op, IF result.kind = "raise" THEN None ELSE result.value.id)
    /\ IF api_key
       THEN /\ pc' = "write"
            /\ result' = NoResult
       ELSE /\ pc' = "done"
            /\ result' = ErrorDictWithStatus(ApiKeyRequired.message, UnauthorizedStatus)
    /\ UNCHANGED <<now, op, api_key, page, per_page, max_pages, listing, owned, direct,
                   tag_answer, user_answer, current_page, all_articles, calls>>

\* After get_article_by_title: an exception becomes {"error": str(e)}; a
\* detail view gives article_id = article.get("id") and the call of
\* publish_article or unpublish_article, up to update_article's API key test.
ByTitleResolved ==
    /\ op \in ByTitleOps
    /\ pc = "resolved"
    /\ IF result.kind = "raise"
       THEN /\ pc' = "done"
            /\ result' = ErrorDict(result.exc.message)
            /\ UNCHANGED <<found, target>>
       ELSE /\ found' = [k |-> "dict", d |-> result.value]
            /\ target' = PublishArgs(op, result.value.id)
            /\ IF api_key
               THEN /\ pc' = "write"
                    /\ result' = NoResult
               ELSE /\ pc' = "done"
                    /\ result' = ErrorDictWithStatus(ApiKeyRequired.message,
                                                     UnauthorizedStatus)
    /\ UNCHANGED <<now, op, api_key, page, per_page, max_pages, listing, owned, direct,
                   tag_answer, user_answer, current_page, all_articles, calls>>

\* update_article as a tool of its own and as called by publish_article and
\* unpublish_article.
NextUpdate == WriteCall \/ PublishCall \/ WriteSend

SpecUpdate == Init /\ [][NextUpdate]_vars

NextPublish ==
    \/ PublishCall
    \/ ByTitleCall
    \/ SearchFetch
    \/ SearchTag
    \/ SearchUser
    \/ SearchReturn
    \/ TitleMatch
    \/ TitleOwned
    \/ ByTitleResolved
    \/ WriteSend

SpecPublish == Init /\ [][NextPublish]_vars

(***************************************************************************)
(* rest_list_my_scheduled_articles: the REST endpoint calls the tool, reads *)
(* the clock again and adds the field "scheduled" to every record.          *)
(***************************************************************************)
HTTPException(status_code, detail) ==
    [type |-> "HTTPException", message |-> detail, status_code |-> status_code]

MissingApiKey == <<"Missing or invalid API key">>

\* The readings the clock can show at or after the reading c.
LaterReadings(c) ==
    {d \in ClockReadings :
        /\ d.utc_offset = c.utc_offset
        /\ d.s > c.s \/ (d.s = c.s /\ d.us >= c.us)}

\* article.get("published", False) and article.get("published_at", "") > now
\* on a record of the list view.
RestScheduled(article, clock) ==
    IF ~Truthy(Get(article.published, PyBool(FALSE))) THEN "no"
    ELSE IF Get(article.published_at, PyStr(<<>>)).k # "str" THEN "raise"
    ELSE IF StrGreater(Get(article.published_at, PyStr(<<>>)).s, isoformat(clock))
    THEN "yes" ELSE "no"

\* {**article, "scheduled": ...}
WithScheduled(article, clock) ==
    [scheduled |-> PyBool(RestScheduled(article, clock) = "yes")] @@ article

\* The entry of the endpoint, up to the API key test.
RestSchedCall ==
    /\ pc = "idle"
    /\ op' = "rest_list_my_scheduled_articles"
    /\ api_key' \in BOOLEAN
    /\ page' \in 1..MaxStartPage
    /\ per_page' \in 1..MaxPerPage
    /\ owned' \in SeqsUpTo(ScheduledCatalogue, MaxScheduledListing)
    /\ IF api_key'
       THEN /\ pc' = "scheduled"
            /\ UNCHANGED result
       ELSE /\ pc' = "done"
            /\ result' = Raised(HTTPException(UnauthorizedStatus, MissingApiKey))
    /\ UNCHANGED <<now, max_pages, target, listing, direct, tag_answer, user_answer,
                   current_page, all_articles, found, calls>>

\* After the tool returned its list: the second reading of the clock and the
\* list comprehension that adds "scheduled".
RestAnnotate ==
    /\ op = "rest_list_my_scheduled_articles"
    /\ pc = "rest_annotate"
    /\ \E clock \in LaterReadings(now) :
          /\ found' = PyList(result.value)
          /\ now' = clock
          /\ result' =
                IF \E i \in DOMAIN result.value : RestScheduled(result.value[i], clock) = "raise"
                THEN Raised(TypeError)
                ELSE Returned([i \in DOMAIN result.value |-> WithScheduled(result.value[i], clock)])
    /\ pc' = "done"
    /\ UNCHANGED <<op, api_key, page, per_page, max_pages, target, listing, owned,
                   direct, tag_answer, user_answer, current_page, all_articles, calls>>

NextRest == RestSchedCall \/ SchedFetch \/ RestAnnotate

SpecRest == Init /\ [][NextRest]_vars

(***************************************************************************)
(* The paged traversals: the five aggregation tools and the keyword scan.  *)
(***************************************************************************)
NextPaging == NextAgg \/ NextSearch

SpecPaging == Init /\ [][NextPaging]_vars

\* The longest listing a traversal can walk through without meeting an empty
\* page: every page up to the highest ceiling is full.
MaxEndlessListing == (MaxStartPage + MaxMaxPages - 1) * RemotePerPage

\* Listings of every length up to that, made of the catalogue's records in
\* turn.
EndlessListing(n) ==
    [i \in 1..n |-> CASE i % 3 = 1 -> artNull [] i % 3 = 2 -> artab [] OTHER -> artAb]
EndlessListings == {EndlessListing(n) : n \in 0..MaxEndlessListing}

\* The entry of an aggregation tool, with a listing that may outlast the call.
EndlessAggCall ==
    /\ pc = "idle"
    /\ \E o \in AggOps, key \in BOOLEAN, p \in 1..MaxStartPage, m \in (-1)..MaxMaxPages :
          /\ op' = o
          /\ api_key' = key
          /\ page' = p
          /\ max_pages' = m
          /\ target' = IF o \in {"browse_articles_by_tag", "search_articles_by_user"}
                        THEN PyStr(s_ab) ELSE None
          /\ current_page' = p
          /\ IF NeedsKey(o) /\ ~key
             THEN /\ pc' = "done"
                  /\ result' = Raised(Wrap(FailedPrefix(o), ApiKeyRequired))
             ELSE /\ pc' = "aggregate"
                  /\ result' = NoResult
    /\ per_page' = RemotePerPage
    /\ listing' \in EndlessListings
    /\ all_articles' = <<>>
    /\ UNCHANGED <<now, owned, direct, tag_answer, user_answer, found, calls>>

\* The entry of search_articles, with a listing that may outlast the scan.
EndlessSearchCall ==
    /\ pc = "idle"
    /\ op' = "search_articles"
    /\ \E q \in {s_Ab, s_x}, p \in 1..MaxStartPage, m \in (-1)..MaxMaxPages :
          SearchBegin(q, p, m)
    /\ listing' \in EndlessListings
    /\ UNCHANGED <<now, api_key, per_page, owned, direct, tag_answer, user_answer, found,
                   calls, result>>

NextEndless ==
    \/ EndlessAggCall
    \/ AggFetch
    \/ AggReturn
    \/ EndlessSearchCall
    \/ SearchFetch
    \/ SearchTag
    \/ SearchUser
    \/ SearchReturn

\* Every request ends within the client's timeout, with an answer or with an
\* exception, so a traversal that can take a step eventually takes it.
SpecPagingFair == Init /\ [][NextEndless]_vars /\ WF_vars(NextEndless)

\* Every tool of the server.
Next ==
    NextAgg \/ NextSearch \/ NextLookup \/ NextTitle \/ NextShape \/ NextSched \/ NextWrite
    \/ NextPublish \/ NextRest \/ NextEndless

Spec == Init /\ [][Next]_vars

(***************************************************************************)
(* Properties of the aggregating tools (SpecAgg).                          *)
(***************************************************************************)
AllAnswered == \A i \in 1..Len(calls) : calls[i].ok

\* The remote listing is N full pages followed by an empty page, the call
\* started at page 1 with a ceiling of at least 1, and every fetch was answered.
FullPagesThenEmpty ==
    /\ op \in AggOps
    /\ pc = "done"
    /\ result.kind = "return"
    /\ page = 1
    /\ max_pages >= 1
    /\ Len(listing) % per_page = 0
    /\ AllAnswered

FullPages == Len(listing) \div per_page

\* C1 as stated: with N full pages followed by an empty page and max_pages >= 1,
\* the call returns N * per_page records after exactly N + 1 fetches.
C1_AsStated ==
    FullPagesThenEmpty =>
        /\ Len(result.value) = FullPages * per_page
        /\ Len(calls) = FullPages + 1

\* C1 amended: the call returns min(N, max_pages) * per_page records after
\* min(N + 1, max_pages) fetches; the counts of C1 hold when max_pages >= N + 1.
C1_CeilingBoundsThePages ==
    FullPagesThenEmpty =>
        /\ Len(result.value) = Min(FullPages, max_pages) * per_page
        /\ Len(calls) = Min(FullPages + 1, max_pages)
        /\ max_pages >= FullPages + 1 =>
              /\ Len(result.value) = FullPages * per_page
              /\ Len(calls) = FullPages + 1

\* Two full pages and the empty page behind them were fetched.
C1_Witness ==
    /\ FullPagesThenEmpty
    /\ FullPages = 2
    /\ max_pages >= 3
    /\ Len(calls) = 3
    /\ Len(result.value) = 2 * per_page

\* C2: with max_pages <= 0 no request is sent to the remote service, and the
\* call (past its API key check) returns the empty list.
C2_NoFetchWithoutPages ==
    (op \in AggOps /\ max_pages <= 0) =>
        /\ calls = <<>>
        /\ (pc = "done" /\ (NeedsKey(op) => api_key)) => result = Returned(<<>>)

\* A call with max_pages = 0 over a non-empty listing has returned.
C2_Witness ==
    /\ op \in AggOps
    /\ pc = "done"
    /\ max_pages = 0
    /\ page = 2
    /\ Len(listing) >= 2
    /\ result = Returned(<<>>)

\* The records of the answered requests of a log, in the order of the log.
RECURSIVE AnsweredRecords(_)
AnsweredRecords(log) ==
    IF log = <<>> THEN <<>>
    ELSE (IF Head(log).ok THEN PageOf(listing, Head(log).page.v, per_page) ELSE <<>>)
         \o AnsweredRecords(Tail(log))

\* C6: a failed page fetch does not end the call and is not repeated: the
\* requests are for page, page + 1, ... once each, after a failure the loop
\* stands at the next page, and the call returns the records of the pages that
\* were answered.
C6_FailedPageIsSkipped ==
    op \in AggOps =>
        /\ \A i \in 1..Len(calls) : calls[i].page = PyInt(page + i - 1)
        /\ (calls # <<>> /\ ~calls[Len(calls)].ok) =>
              /\ current_page = calls[Len(calls)].page.v + 1
              /\ pc = "aggregate" \/ (pc = "done" /\ current_page > max_page_to_search)
        /\ (pc = "done" /\ calls # <<>>) =>
              result = Returned(simplify_articles(AnsweredRecords(calls)))

\* A page failed, the next page was answered with records, and they were returned.
C6_Witness ==
    /\ op \in AggOps
    /\ pc = "done"
    /\ Len(calls) >= 2
    /\ ~calls[1].ok
    /\ calls[2].ok
    /\ result.kind = "return"
    /\ result.value # <<>>

(***************************************************************************)
(* Properties of the keyword scan (SpecSearch).                            *)
(***************************************************************************)
IsPageCall(c) == c.page # Absent
IsTagCall(c) == c.tag # Absent
IsUserCall(c) == c.username # Absent

\* The page request c was answered with a page holding at least one match.
YieldsMatch(c) ==
    /\ IsPageCall(c)
    /\ c.ok
    /\ ~PageRaises(target.s, PageOf(listing, c.page.v, RemotePerPage))
    /\ page_matches(target.s, PageOf(listing, c.page.v, RemotePerPage)) # <<>>

PagingFoundMatch == \E i \in DOMAIN calls : YieldsMatch(calls[i])
TagCalls == {i \in DOMAIN calls : IsTagCall(calls[i])}
UserCalls == {i \in DOMAIN calls : IsUserCall(calls[i])}

\* C5: the request that yields the first match is the last request of the
\* scan: it is request number (its page - page + 1), nothing is requested after
\* it, and the scan returns the matches of that page alone.
C5_ScanStopsAtFirstMatchingPage ==
    op = "search_articles" =>
        \A i \in DOMAIN calls :
            YieldsMatch(calls[i]) =>
                /\ i = Len(calls)
                /\ calls[i].page = PyInt(page + i - 1)
                /\ \A j \in 1..(i - 1) : calls[j].page = PyInt(page + j - 1)
                /\ pc = "done" =>
                      result = Returned(search_results(
                          page_matches(target.s,
                                       PageOf(listing, calls[i].page.v, RemotePerPage))))

\* The scan ended on its first page although the next page holds a match too.
C5_Witness ==
    /\ op = "search_articles"
    /\ pc = "done"
    /\ Len(calls) = 1
    /\ YieldsMatch(calls[1])
    /\ max_pages >= 2
    /\ page_matches(target.s, PageOf(listing, page + 1, RemotePerPage)) # <<>>
    /\ Len(result.value) = Len(page_matches(target.s, PageOf(listing, page, RemotePerPage)))

NoWhitespaceIn(q) == \A i \in DOMAIN q : q[i] \notin {" ", "\t"}

\* C10 as stated: when paging ends without a match the tag call is made, and
\* the username call is made exactly when the query has no whitespace; neither
\* is made when paging found a match.
C10_AsStated ==
    (op = "search_articles" /\ pc = "done") =>
        IF PagingFoundMatch
        THEN TagCalls = {} /\ UserCalls = {}
        ELSE /\ TagCalls # {}
             /\ UserCalls # {} <=> NoWhitespaceIn(target.s)

\* C10 amended: when paging ends without a match the tag call is made once with
\* the lowercased query; the username call is made (once, after it, with the
\* lowercased query) exactly when the tag call gave no record and the query
\* holds no space character; neither is made when paging found a match.
C10_UserCallOnlyAfterEmptyTagCall ==
    (op = "search_articles" /\ pc = "done") =>
        IF PagingFoundMatch
        THEN TagCalls = {} /\ UserCalls = {}
        ELSE /\ Cardinality(TagCalls) = 1
             /\ \A i \in TagCalls : calls[i].tag = PyStr(Lower(target.s))
             /\ UserCalls # {} <=>
                   /\ \A k \in DOMAIN target.s : target.s[k] # " "
                   /\ ~tag_answer.ok \/ tag_answer.records = <<>>
             /\ Cardinality(UserCalls) <= 1
             /\ \A i \in UserCalls :
                   /\ calls[i].username = PyStr(Lower(target.s))
                   /\ \A j \in TagCalls : j < i

\* Paging found nothing, the tag call gave nothing, and the username call was
\* made for a query without a space.
C10_Witness ==
    /\ op = "search_articles"
    /\ pc = "done"
    /\ ~PagingFoundMatch
    /\ listing # <<>>
    /\ TagCalls # {}
    /\ UserCalls # {}
    /\ target = PyStr(s_atb)

(***************************************************************************)
(* Properties of the identifier lookups (SpecLookup).                      *)
(***************************************************************************)
IdOps == {"get_article", "get_article_by_id"}

\* The requests for the caller's own records.
OwnedCalls == {i \in DOMAIN calls : calls[i].path = "/articles/me/all"}

\* The positions of the owned listing that hold the target identifier.
TargetPositions == {i \in DOMAIN owned : str(Get(owned[i].id, None)) = str(target)}

SetMin(S) == CHOOSE x \in S : \A y \in S : x <= y

\* The public endpoint answered 404 and the owned listing was served.
FallbackServed ==
    /\ op \in IdOps
    /\ pc = "done"
    /\ direct = DirectHttp(NotFoundStatus)
    /\ OwnedCalls # {}
    /\ \A i \in OwnedCalls : calls[i].ok

\* C3: after a 404 of the public endpoint, a record of the owned listing that
\* holds the target identifier is returned in its detail form, wherever it
\* stands and whatever the other records are.
C3_AsStated ==
    (FallbackServed /\ TargetPositions # {}) =>
        result = Returned(format_article_detail(owned[SetMin(TargetPositions)]))

\* C7: when the public endpoint fails with a status other than 404, the call
\* ends there: the owned listing is never requested and the caller gets the
\* failure (an error dictionary from get_article, an MCPError from
\* get_article_by_id).
C7_OtherStatusEndsTheLookup ==
    (op \in IdOps /\ direct.kind = "http" /\ direct.status # 404) =>
        /\ pc = "done"
        /\ OwnedCalls = {}
        /\ Len(calls) = 1
        /\ op = "get_article" =>
              /\ result.kind = "error"
              /\ result.message = <<"HTTP error", "HTTP status error", ToString(direct.status)>>
        /\ op = "get_article_by_id" =>
              /\ result.kind = "raise"
              /\ result.exc.message =
                    <<"Failed to get article", "HTTP status error", ToString(direct.status)>>

\* The public endpoint answered 500 for an identifier the owned listing holds.
C7_Witness ==
    /\ op = "get_article_by_id"
    /\ pc = "done"
    /\ api_key
    /\ direct = DirectHttp(500)
    /\ TargetPositions # {}
    /\ result.kind = "raise"

(***************************************************************************)
(* Properties of the title lookup (SpecTitle).                             *)
(***************************************************************************)
\* The identifiers of the search matches titled exactly as the target.
ExactIds ==
    {all_articles[i].id : i \in {j \in DOMAIN all_articles : all_articles[j].title = target}}

\* The positions of the fetched owned records whose title equals the target
\* when case is ignored.
SameTitleIgnoringCase(r) == r.title.k = "str" /\ Lower(r.title.s) = Lower(target.s)
CiPositions == {i \in DOMAIN found.l : SameTitleIgnoringCase(found.l[i])}

\* A title that is present and no string stands among the first n fetched records.
BadTitleWithin(n) == \E j \in 1..n : found.l[j].title.k \notin {"str", "absent"}

\* C4: when the search gave a record titled exactly as the target, that record
\* is the one returned and the owned listing is never requested, also when the
\* owned listing holds another record whose title differs only in case.
C4_ExactSearchMatchWins ==
    (op = "get_article_by_title" /\ pc = "done" /\ ExactIds # {}) =>
        /\ result.kind = "return"
        /\ result.value.title = target
        /\ result.value.id \in ExactIds
        /\ OwnedCalls = {}

\* The search gave the record titled "Ab"; the owned listing starts with the
\* record titled "ab", which has another identifier.
C4_Witness ==
    /\ op = "get_article_by_title"
    /\ pc = "done"
    /\ target = PyStr(s_Ab)
    /\ ExactIds = {artAb.id}
    /\ owned # <<>>
    /\ owned[1] = artab
    /\ result.kind = "return"
    /\ result.value.id = artAb.id

NothingFoundAfterFallback ==
    /\ pc = "done"
    /\ OwnedCalls # {}
    /\ \A i \in OwnedCalls : calls[i].ok
    /\ \/ /\ op = "get_article_by_id"
          /\ TargetPositions = {}
       \/ /\ op = "get_article_by_title"
          /\ CiPositions = {}
          /\ ~BadTitleWithin(Len(found.l))

\* C8: a lookup that finds no record after its fallback scan raises an error
\* that carries the status 404.
C8_AsStated ==
    NothingFoundAfterFallback =>
        /\ result.kind = "raise"
        /\ result.exc.status_code = NotFoundStatus


(***************************************************************************)
(* Properties of the fallback calls of the keyword scan (SpecSearch).      *)
(***************************************************************************)
FailedTagCall == \E i \in TagCalls : ~calls[i].ok
FailedUserCall == \E i \in UserCalls : ~calls[i].ok

\* C11: a failed fallback call never reaches the caller: every finished scan
\* returns a list; when paging found nothing and every fallback call that was
\* made failed, the list is empty; and after a failed tag call the
\* owning-user call is still made for a query without a space.
C11_FallbackFailuresAreIgnored ==
    op = "search_articles" =>
        /\ pc = "done" => result.kind = "return"
        /\ (pc = "done" /\ FailedTagCall /\ (UserCalls = {} \/ FailedUserCall)) =>
              result = Returned(<<>>)
        /\ (pc \in {"search_usered", "done"} /\ FailedTagCall
            /\ \A k \in DOMAIN target.s : target.s[k] # " ") => UserCalls # {}

\* Paging found nothing, the tag call failed, the owning-user call was made
\* after it and failed too, and the scan returned the empty list.
C11_Witness ==
    /\ op = "search_articles"
    /\ pc = "done"
    /\ listing # <<>>
    /\ ~PagingFoundMatch
    /\ FailedTagCall
    /\ FailedUserCall
    /\ result = Returned(<<>>)


\* The value v is a string that holds the query, case ignored.
HoldsQuery(v) == v.k = "str" /\ Contains(Lower(target.s), Lower(v.s))

\* The record holds the query in its title, its summary, one of its tags, its
\* owning-user name or its body text; a null or absent field holds nothing.
RecordHoldsQuery(r) ==
    \/ HoldsQuery(r.title)
    \/ HoldsQuery(r.description)
    \/ r.tag_list.k = "list" /\ \E i \in DOMAIN r.tag_list.l : HoldsQuery(r.tag_list.l[i])
    \/ r.user.k = "dict" /\ HoldsQuery(r.user.username)
    \/ HoldsQuery(r.body_markdown)

\* The records served for the page request c.
ServedPage(c) == PageOf(listing, c.page.v, RemotePerPage)

\* The page request c was answered with a page on which a record holds the query.
HoldsMatch(c) ==
    /\ IsPageCall(c)
    /\ c.ok
    /\ \E k \in DOMAIN ServedPage(c) : RecordHoldsQuery(ServedPage(c)[k])

\* C12: the first answered page on which some record holds the query is the
\* page the scan returns, and it returns exactly the records of that page that
\* hold the query, also when the page has records with a null or absent
\* title, summary or body.
C12_AsStated ==
    (op = "search_articles" /\ pc = "done") =>
        \A i \in DOMAIN calls :
            (HoldsMatch(calls[i]) /\ \A j \in 1..(i - 1) : ~HoldsMatch(calls[j])) =>
                result = Returned(search_results(SelectSeq(ServedPage(calls[i]), RecordHoldsQuery)))


(***************************************************************************)
(* Properties of the response shaper (SpecShape).                          *)
(***************************************************************************)
\* The shaped record of a finished run: the one element of the simplified
\* list, or the detail view.
Shaped == IF op = "simplify_articles" THEN result.value[1] ELSE result.value

ShapeDone == op \in ShapeOps /\ pc = "done"

\* C13: a record whose publication flag is absent or null is shaped with
\* published = false by both projections, and neither raises for it (the
\* detail view raises only for a null user); published is true only for a
\* flag that is present and truthy.
C13_AbsentFlagIsUnpublished ==
    ShapeDone =>
        /\ result.kind = "raise" => (op = "format_article_detail" /\ target.user = None)
        /\ result.kind = "return" =>
              /\ target.published \in {Absent, None} => Shaped.published = PyBool(FALSE)
              /\ Shaped.published \in {PyBool(TRUE), PyBool(FALSE)}
              /\ Shaped.published = PyBool(TRUE) =>
                    (target.published \notin {Absent, None} /\ Truthy(target.published))

\* A record without the flag went through simplify_articles and came out
\* unpublished.
C13_Witness ==
    /\ op = "simplify_articles"
    /\ pc = "done"
    /\ target.published = Absent
    /\ result.kind = "return"
    /\ Shaped.published = PyBool(FALSE)


\* C15: whether the tag collection arrives as a sequence or as a
\* comma-separated string, under tag_list or under tags, both projections
\* shape it to the same sequence: the tags of the collection, trimmed and
\* non-empty, in their order.
C15_TagFormsShapeAlike ==
    (ShapeDone /\ result.kind = "return") =>
        /\ Shaped.tags = found
        /\ \A i \in DOMAIN Shaped.tags.l :
              /\ Shaped.tags.l[i].s # <<>>
              /\ ~IsSpace(Shaped.tags.l[i].s[1])
              /\ ~IsSpace(Shaped.tags.l[i].s[Len(Shaped.tags.l[i].s)])

\* A string of three tags written with blanks around the commas was shaped
\* to the three tags in their order.
C15_Witness ==
    /\ ShapeDone
    /\ target.tag_list.k = "str"
    /\ \E k \in DOMAIN target.tag_list.s : IsSpace(target.tag_list.s[k])
    /\ Len(found.l) = 3
    /\ found.l[1] # found.l[2]
    /\ result.kind = "return"
    /\ Shaped.tags = found

NonEmptyStr(v) == v.k = "str" /\ v.s # <<>>

\* C16: the detail view carries body_markdown and body_html as they are (null
\* when absent) and a content field that is the markdown body when that is a
\* non-empty string, else the HTML body when that is a non-empty string, else
\* the empty string.
C16_ContentPrefersMarkdown ==
    (op = "format_article_detail" /\ pc = "done" /\ result.kind = "return") =>
        /\ result.value.body_markdown =
              (IF target.body_markdown = Absent THEN None ELSE target.body_markdown)
        /\ result.value.body_html =
              (IF target.body_html = Absent THEN None ELSE target.body_html)
        /\ result.value.content =
              (IF NonEmptyStr(target.body_markdown) THEN target.body_markdown
               ELSE IF NonEmptyStr(target.body_html) THEN target.body_html
               ELSE EmptyStr)

\* Both bodies were given and the content is the markdown one.
C16_Witness ==
    /\ op = "format_article_detail"
    /\ pc = "done"
    /\ NonEmptyStr(target.body_markdown)
    /\ NonEmptyStr(target.body_html)
    /\ result.kind = "return"
    /\ result.value.content = target.body_markdown
    /\ result.value.content # target.body_html


(***************************************************************************)
(* Properties of the scheduled listing (SpecSched).                        *)
(***************************************************************************)
\* The instant the timestamp string names: hour and second in UTC.
\* Its characters 12-13 are the hour and 18-19 the second.
DigitValue(c) == CharCode(c) - 48
TimestampHour(ts) == 10 * DigitValue(ts[12]) + DigitValue(ts[13])
TimestampSecond(ts) == 10 * DigitValue(ts[18]) + DigitValue(ts[19])

\* The timestamp lies after the instant the clock was read at.
AfterNow(ts) ==
    LET h == now.h - now.utc_offset IN
    \/ TimestampHour(ts) > h
    \/ TimestampHour(ts) = h /\ TimestampSecond(ts) > now.s

\* The record is scheduled: published, with a publication instant to come.
IsScheduled(r) ==
    /\ r.published = PyBool(TRUE)
    /\ r.published_at.k = "str"
    /\ AfterNow(r.published_at.s)

\* C14: the tool returns exactly the records of the fetched page whose flag
\* is true and whose publication instant lies after the current instant.
C14_AsStated ==
    (op = "list_my_scheduled_articles" /\ pc = "done" /\ result.kind = "return") =>
        result.value = simplify_articles(SelectSeq(PageOf(owned, page, per_page), IsScheduled))


(***************************************************************************)
(* Properties of the fallback of the identifier lookups (SpecLookup).      *)
(***************************************************************************)
NoOwnedRecordPublished == \A i \in DOMAIN owned : ~Truthy(owned[i].published)

\* C17: the fallback finds a record that lies beyond the first page of the
\* owned listing (here with a numeric target and no published record in the
\* listing), in get_article and in get_article_by_id.
C17_AsStated ==
    (/\ FallbackServed
     /\ NoOwnedRecordPublished
     /\ target.k = "int"
     /\ TargetPositions # {}
     /\ SetMin(TargetPositions) > OwnedDefaultPerPage) =>
        result = Returned(format_article_detail(owned[SetMin(TargetPositions)]))

\* C18: a target given as a string matches the owned record whose numeric
\* identifier has that decimal form (here on the first page of a listing
\* without published records), and the first such record is returned, in
\* get_article and in get_article_by_id.
C18_AsStated ==
    (/\ FallbackServed
     /\ NoOwnedRecordPublished
     /\ target.k = "str"
     /\ TargetPositions # {}
     /\ SetMin(TargetPositions) <= OwnedDefaultPerPage) =>
        result = Returned(format_article_detail(owned[SetMin(TargetPositions)]))


(***************************************************************************)
(* Properties of the error outcomes of all tools (Spec).                   *)
(***************************************************************************)
\* The status an error outcome carries: the status_code of a raised MCPError
\* or of an error dictionary, null when the dictionary has no such key.
ReportedStatus ==
    CASE result.kind = "raise" -> PyInt(result.exc.status_code)
      [] result.kind = "error" -> Get(result.status_code, None)
      [] OTHER -> None

\* The message of an error outcome.
ReportedMessage ==
    CASE result.kind = "raise" -> result.exc.message
      [] result.kind = "error" -> result.message
      [] OTHER -> <<>>

\* The remote service answered the tool's own request with an HTTP status
\* that is no not-found answer of a lookup.
RemoteStatusFailure ==
    /\ pc = "done"
    /\ direct.kind = "http"
    /\ \/ op \in WriteOps
       \/ op \in IdOps /\ direct.status # NotFoundStatus

\* C19: the error outcome of create_article, update_article and
\* get_article_by_id carries the status the remote service answered with, and
\* the error text of get_article names it.
C19_AsStated ==
    RemoteStatusFailure =>
        IF op = "get_article"
        THEN \E k \in DOMAIN ReportedMessage : ReportedMessage[k] = ToString(direct.status)
        ELSE ReportedStatus = PyInt(direct.status)

\* The tools that need the caller's API key.
KeyOps ==
    WriteOps \cup {"list_my_articles", "list_my_draft_articles", "list_my_scheduled_articles"}

\* C20: without an API key each of these tools sends no request and reports
\* an outcome that carries the status 401.
C20_AsStated ==
    (op \in KeyOps /\ pc = "done" /\ ~api_key) =>
        /\ calls = <<>>
        /\ ReportedStatus = PyInt(UnauthorizedStatus)


\* ---------------------------------------------------------------------------
\* Aggregation result as a concatenation of pages.

\* The page with number p as the remote serves it in this call.
PageNumbered(p) == PageOf(listing, p, per_page)

\* The positions of the log whose request was answered with an empty page.
EmptyAnswers == {i \in 1..Len(calls) : calls[i].ok /\ PageNumbered(calls[i].page.v) = <<>>}

\* The number of requests that precede the first empty page (all of them
\* when no page came back empty).
BeforeFirstEmpty == IF EmptyAnswers = {} THEN Len(calls) ELSE SetMin(EmptyAnswers) - 1

RECURSIVE PagesInOrder(_, _)
\* Pages lo..hi in increasing page-number order, keeping the answered ones.
PagesInOrder(lo, hi) ==
    IF hi < lo THEN <<>>
    ELSE PagesInOrder(lo, hi - 1)
         \o (IF \E i \in 1..BeforeFirstEmpty : calls[i].ok /\ calls[i].page.v = hi
             THEN PageNumbered(hi) ELSE <<>>)

NoDuplicate(s) == \A i, j \in 1..Len(s) : s[i] = s[j] => i = j

\* C21: the result of an aggregation call is the concatenation, in increasing
\* page-number order, of the answered pages that precede the first empty
\* page, each record shaped to the list view in its in-page order; when the
\* listing holds no record twice, neither does the result.
C21_ResultIsPagesInOrder ==
    (op \in AggOps /\ pc = "done" /\ result.kind = "return") =>
        /\ result = Returned(simplify_articles(PagesInOrder(page, page + BeforeFirstEmpty - 1)))
        /\ NoDuplicate(listing) => NoDuplicate(result.value)

C21_Witness ==
    /\ op \in AggOps /\ pc = "done" /\ result.kind = "return"
    /\ Len(calls) = 3
    /\ calls[1].ok /\ ~calls[2].ok /\ calls[3].ok
    /\ EmptyAnswers = {}
    /\ per_page = 1
    /\ NoDuplicate(listing)
    /\ Len(result.value) = 2
    /\ result.value[1] /= result.value[2]


\* ---------------------------------------------------------------------------
\* An empty page ends the traversal.

\* C22: in an aggregation call, a request answered with an empty page is the
\* last request of the call: no page with a higher number is requested after
\* it, whether or not earlier requests failed and whether or not the page
\* ceiling was reached.
C22_EmptyPageEndsTraversal ==
    op \in AggOps =>
        \A i \in EmptyAnswers :
            /\ i = Len(calls)
            /\ pc \in {"aggregated", "done"}
            /\ \A j \in 1..Len(calls) : calls[j].page.v <= calls[i].page.v

C22_Witness ==
    /\ op \in AggOps /\ pc = "done"
    /\ Len(calls) = 2
    /\ ~calls[1].ok
    /\ EmptyAnswers = {2}
    /\ calls[2].page.v < max_page_to_search


\* ---------------------------------------------------------------------------
\* Page numbers of one traversal.

PagingOps == AggOps \cup {"search_articles"}

\* The paged requests of the call, in the order they were sent.
PageCalls == SelectSeq(calls, IsPageCall)

\* C23: within one traversal the page numbers requested are start, start + 1,
\* start + 2, ... without gap, repetition or reordering; requests are sent
\* one at a time: a step sends at most one request, and it is logged together
\* with its answer after every earlier request of the call.
C23_PagesAreSequential ==
    /\ [](op \in PagingOps => \A i \in 1..Len(PageCalls) : PageCalls[i].page = PyInt(page + i - 1))
    /\ [][/\ Len(calls') <= Len(calls) + 1
          /\ SubSeq(calls', 1, Len(calls)) = calls
          /\ \A i \in 1..Len(calls') : calls'[i].ok \in BOOLEAN]_vars

C23_Witness ==
    /\ op = "search_articles" /\ pc = "done"
    /\ page = 2
    /\ Len(PageCalls) = 3
    /\ ~PageCalls[2].ok
    /\ PageCalls[3].page = PyInt(4)


\* ---------------------------------------------------------------------------
\* Termination of a traversal.

Max0(n) == IF n > 0 THEN n ELSE 0

\* The requests of the call that carry no page number (the keyword scan's
\* tag and username calls).
FallbackCalls == SelectSeq(calls, LAMBDA c : ~IsPageCall(c))

\* C24: every aggregation call and every keyword scan ends, whatever the
\* remote answers, after at most max(0, max_pages) paged requests, all of
\* them for pages start .. start + max_pages - 1; the keyword scan adds at
\* most two unpaged calls, an aggregation call none.
C24_TraversalTerminates ==
    /\ [](op \in PagingOps =>
            /\ Len(PageCalls) <= Max0(max_pages)
            /\ \A i \in 1..Len(PageCalls) :
                  PageCalls[i].page.v >= page /\ PageCalls[i].page.v <= page + max_pages - 1
            /\ Len(FallbackCalls) <= (IF op = "search_articles" THEN 2 ELSE 0))
    /\ (op \in PagingOps /\ pc # "done") ~> (pc = "done")

C24_Witness ==
    /\ op \in AggOps /\ pc = "done"
    /\ max_pages = MaxMaxPages
    /\ page = MaxStartPage
    /\ Len(listing) = MaxEndlessListing
    /\ Len(calls) = max_pages
    /\ ~calls[1].ok
    /\ \A i \in 2..Len(calls) : calls[i].ok
    /\ Len(result.value) = (max_pages - 1) * RemotePerPage


\* ---------------------------------------------------------------------------
\* get_article: the scan of the owned listing stops at a published record.

\* The positions of the owned listing that hold a published record.
PublishedPositions == {i \in DOMAIN owned : Truthy(owned[i].published)}

\* The page of the owned listing that holds position i.
OwnedPageOf(i) == ((i - 1) \div GetArticlePerPage) + 1

\* C25: in get_article's scan of the owned listing, a published record that
\* stands before the first record with the target identifier ends the scan
\* with the not-found outcome: the page of the published record is the last
\* one requested and the record with the identifier is not returned.  A
\* failed request for an owned page is the last request of the call and the
\* call returns that failure as an error dictionary.
C25_ScanStopsAtPublishedRecord ==
    (op = "get_article" /\ pc = "done") =>
        /\ ( /\ OwnedCalls # {}
             /\ \A i \in OwnedCalls : calls[i].ok
             /\ PublishedPositions # {}
             /\ SetMin(PublishedPositions) <= GetArticleMaxPages * GetArticlePerPage
             /\ TargetPositions # {} => SetMin(PublishedPositions) < SetMin(TargetPositions) )
           => /\ result = ErrorDict(NotFoundWithId)
              /\ Cardinality(OwnedCalls) = OwnedPageOf(SetMin(PublishedPositions))
              /\ calls[Len(calls)].page = PyInt(OwnedPageOf(SetMin(PublishedPositions)))
        /\ \A i \in OwnedCalls :
              ~calls[i].ok =>
                 /\ i = Len(calls)
                 /\ result = ErrorDict(HTTPStatusError(IF api_key THEN 500 ELSE UnauthorizedStatus).message)

C25_Witness ==
    /\ op = "get_article" /\ pc = "done"
    /\ Cardinality(OwnedCalls) = 1
    /\ \A i \in OwnedCalls : calls[i].ok
    /\ PublishedPositions = {1}
    /\ TargetPositions = {MaxOwned}
    /\ result = ErrorDict(NotFoundWithId)


\* ---------------------------------------------------------------------------
\* The REST scheduled listing.

\* C26: every record returned by rest_list_my_scheduled_articles has
\* scheduled = true, however much time passed between the tool's reading of
\* the clock and the endpoint's.
C26_AsStated ==
    (op = "rest_list_my_scheduled_articles" /\ pc = "done" /\ result.kind = "return") =>
        \A i \in DOMAIN result.value : result.value[i].scheduled = PyBool(TRUE)


\* ---------------------------------------------------------------------------
\* publish_article_by_title and unpublish_article_by_title.

\* The positions of the log that hold a PUT.
PutCalls == {i \in DOMAIN calls : "method" \in DOMAIN calls[i] /\ calls[i].method = "PUT"}

\* get_article_by_title returned a detail view to the by-title tool.
TitleResolved == found.k = "dict"

\* The one PUT of the call goes to the resolved record and carries the flag.
OnePutToResolved ==
    /\ Cardinality(PutCalls) = 1
    /\ \A i \in PutCalls :
          /\ i = Len(calls)
          /\ calls[i].id = found.d.id
          /\ calls[i].payload.published = PublishFlag(op)

\* C27 as stated: the by-title tools send a PUT only after the title was
\* resolved; a failed resolution gives an error outcome without PUT, and a
\* resolved title gives exactly one PUT, to the resolved identifier, with
\* published = true (publish) or false (unpublish).
C27_AsStated ==
    op \in ByTitleOps =>
        /\ PutCalls # {} => TitleResolved
        /\ (pc = "done" /\ ~TitleResolved) => (PutCalls = {} /\ result.kind = "error")
        /\ (pc = "done" /\ TitleResolved) => OnePutToResolved

\* C27, amended: as above, with the PUT sent only when an API key is
\* configured; without one a resolved title ends with the 401 error
\* dictionary of update_article and no PUT.
C27_PutOnlyAfterResolutionWithKey ==
    op \in ByTitleOps =>
        /\ PutCalls # {} => TitleResolved
        /\ (pc = "done" /\ ~TitleResolved) => (PutCalls = {} /\ result.kind = "error")
        /\ (pc = "done" /\ TitleResolved /\ api_key) => OnePutToResolved
        /\ (pc = "done" /\ TitleResolved /\ ~api_key) =>
              /\ PutCalls = {}
              /\ result = ErrorDictWithStatus(ApiKeyRequired.message, UnauthorizedStatus)

C27_Witness ==
    /\ op = "unpublish_article_by_title" /\ pc = "done"
    /\ api_key
    /\ TitleResolved
    /\ OwnedCalls # {}
    /\ OnePutToResolved
    /\ calls[Len(calls)].payload.published = PyBool(FALSE)
    /\ calls[Len(calls)].ok


\* ---------------------------------------------------------------------------
\* The payload of update_article.

UpdateOps == {"update_article"} \cup PublishOps

PayloadFields == {"title", "body_markdown", "tags", "published"}

\* The fields of the payload that are there.
Sent(payload) == {f \in PayloadFields : payload[f] # Absent}

\* The fields the caller gave a value.
Supplied(a) ==
    {f \in PayloadFields :
        CASE f = "title" -> a.title # None
          [] f = "body_markdown" -> a.content # None
          [] f = "tags" -> a.tags # None
          [] f = "published" -> a.published # None}

\* No tag of the argument survives sanitize_tag.
NoTagLeft(a) == a.tags # None /\ SanitizedTags(SplitComma(a.tags.s, <<>>)) = <<>>

\* C28 as stated: the payload of update_article holds exactly the fields the
\* caller supplied; publish_article and unpublish_article send the
\* publication flag alone.
C28_AsStated ==
    op \in UpdateOps =>
        \A i \in PutCalls :
            /\ DOMAIN calls[i].payload = PayloadFields
            /\ Sent(calls[i].payload) = Supplied(target)
            /\ op \in PublishOps => Sent(calls[i].payload) = {"published"}

\* C28, amended: the payload holds no field the caller did not supply, and
\* every supplied field except tags of which nothing is left after
\* sanitising; publish_article and unpublish_article send the publication
\* flag alone, with the value true and false.
C28_PayloadHoldsSuppliedFields ==
    op \in UpdateOps =>
        \A i \in PutCalls :
            /\ DOMAIN calls[i].payload = PayloadFields
            /\ Sent(calls[i].payload) =
                  Supplied(target) \ (IF NoTagLeft(target) THEN {"tags"} ELSE {})
            /\ op \in PublishOps =>
                  /\ Sent(calls[i].payload) = {"published"}
                  /\ calls[i].payload.published = PublishFlag(op)

C28_Witness ==
    /\ op = "update_article" /\ pc = "done"
    /\ PutCalls = {1}
    /\ Supplied(target) = {"title", "tags"}
    /\ NoTagLeft(target)
    /\ Sent(calls[1].payload) = {"title"}


\* ---------------------------------------------------------------------------
\* get_article_by_title: the detail view on the two paths.

\* The positions of the raw search matches titled exactly as the target.
ExactPositions == {j \in DOMAIN all_articles : all_articles[j].title = target}

\* C29: a record found through the keyword search is returned as the detail
\* projection of the raw record, the same view the owned-listing path gives
\* for that record: author, body_markdown, body_html and content included.
C29_AsStated ==
    (op = "get_article_by_title" /\ pc = "done" /\ ExactPositions # {}) =>
        LET raw == all_articles[SetMin(ExactPositions)] IN
        ~format_article_detail_raises(raw) =>
            /\ result.kind = "return"
            /\ result.value.author = format_article_detail(raw).author
            /\ result.value.body_markdown = format_article_detail(raw).body_markdown
            /\ result.value.body_html = format_article_detail(raw).body_html
            /\ result.value.content = format_article_detail(raw).content


\* ---------------------------------------------------------------------------
\* list_my_scheduled_articles: records without flag or without timestamp.

\* C30: list_my_scheduled_articles classifies every record of the answered
\* page and returns a list; a record without publication flag, or published
\* without timestamp, never makes the call fail.
C30_AsStated ==
    ( /\ op = "list_my_scheduled_articles" /\ pc = "done"
      /\ calls # <<>> /\ calls[1].ok ) =>
        result.kind = "return"

====
